---------------------------- MODULE Spec2Model ----------------------------
(***************************************************************************)
(* A model of kiwi, a server-side WebSocket engine: the frame codec, the   *)
(* message receiver and sender, the connection state and the connection    *)
(* pool.                                                                   *)
(*                                                                         *)
(* Bytes are the integers 0..255.  A byte string is a sequence of bytes.   *)
(* A uint64 counter is kept as the representative of its residue class     *)
(* modulo 2^64 that is nearest to 0: -1 stands for 2^64 - 1.               *)
(***************************************************************************)
EXTENDS Integers, Sequences, FiniteSets, TLC

(***************************************************************************)
(* Bounds of the model.                                                    *)
(***************************************************************************)
\* connections of the server
MaxConns == 2
\* tasks (goroutines) that use one connection: the serving task and the
\* tasks its handler starts
MaxTasks == 2
\* library calls one task makes
MaxCalls == 2
\* payload bytes of a frame the peer sends
MaxPayload == 1
\* frames the peer sends on one connection
MaxFrames == 2

(***************************************************************************)
(* Program constants.                                                      *)
(***************************************************************************)
StateConnecting == 0
StateOpen == 1
StateClosing == 2
StateClosed == 3

OpcodeContinue == 0
OpcodeText == 1
OpcodeBinary == 2
OpcodeClose == 8
OpcodePing == 9
OpcodePong == 10

CloseCodeNormalClosure == 1000
CloseCodeGoingAway == 1001

\* the size of the buffer ReadBytesAsMath reads into
ReadBufSize == 512

ErrNone == "nil"
ErrDeformedFirstTwoBytes == "deformed first two bytes of frame"
ErrDeformedOpcode == "deformed opcode"
ErrDeformedExtendedPayloadLength == "deformed extended payload length"
ErrDeformedPayloadLength == "deformed payload length"
ErrDeformedMaskingKey == "deformed masking key"
ErrDeformedPayloadData == "deformed payload data"
ErrFrameTooLarge == "frame too large"
ErrConnIsNotOpen == "conn is not open"
ErrMessageTooLarge == "message too large"
ErrBufNotEnough == "buf not enough"
ErrWrite == "write error"

(***************************************************************************)
(* Bytes.                                                                  *)
(***************************************************************************)
Min(a, b) == IF a < b THEN a ELSE b

Pow2(k) == 2 ^ k

\* b >> k on a uint8
Shr8(b, k) == b \div Pow2(k)

\* b << k on a uint8 (the high bits are lost)
Shl8(b, k) == (b * Pow2(k)) % 256

RECURSIVE XorBits(_, _, _)
XorBits(a, b, n) ==
    IF n = 0 THEN 0
    ELSE (((a % 2) + (b % 2)) % 2) + (2 * XorBits(a \div 2, b \div 2, n - 1))

\* a ^ b on bytes
Xor8(a, b) == XorBits(a, b, 8)

Take(s, n) == SubSeq(s, 1, Min(n, Len(s)))

Drop(s, n) == SubSeq(s, Min(n, Len(s)) + 1, Len(s))

\* the value of a big-endian byte string; a value TLC cannot hold (2^31 or
\* more) is kept as MaxInt, which exceeds every length and cap of the model
MaxInt == 2147483646 + 1

RECURSIVE BigEndian(_)
BigEndian(bs) ==
    IF bs = <<>> THEN 0
    ELSE LET hi == BigEndian(SubSeq(bs, 1, Len(bs) - 1))
         IN  IF hi >= 8388608 THEN MaxInt ELSE hi * 256 + bs[Len(bs)]

(***************************************************************************)
(* The byte stream a connection reads: conn.Buf's bufio.Reader over the    *)
(* socket.  buf holds the bytes the reader has buffered, chunks what each  *)
(* later read of the socket returns, eof says that the peer has closed     *)
(* after them, closed that rwc.Close() was called.                         *)
(***************************************************************************)
\* r.Read(p) with len(p) = n > 0: an empty buffer is filled by one read of
\* the socket, then at most n buffered bytes are copied out.
BufRead(s, n) ==
    IF s.buf # <<>>
    THEN [data |-> Take(s.buf, n), err |-> FALSE, blocked |-> FALSE,
          s |-> [s EXCEPT !.buf = Drop(s.buf, n)]]
    ELSE IF s.closed
    THEN [data |-> <<>>, err |-> TRUE, blocked |-> FALSE, s |-> s]
    ELSE IF s.chunks # <<>>
    THEN [data |-> Take(Head(s.chunks), n), err |-> FALSE, blocked |-> FALSE,
          s |-> [s EXCEPT !.buf = Drop(Head(s.chunks), n),
                          !.chunks = Tail(s.chunks)]]
    ELSE IF s.eof
    THEN [data |-> <<>>, err |-> TRUE, blocked |-> FALSE, s |-> s]
    ELSE [data |-> <<>>, err |-> FALSE, blocked |-> TRUE, s |-> s]

RECURSIVE ReadBytesAsMathLoop(_, _, _, _)
ReadBytesAsMathLoop(s, size, n, byts) ==
    LET rd == BufRead(s, ReadBufSize)
        i == Len(rd.data)
    IN  IF rd.blocked
        THEN [byts |-> <<>>, err |-> ErrNone, blocked |-> TRUE, s |-> rd.s]
        ELSE IF i > 0 /\ n + i = size
        THEN [byts |-> byts \o rd.data, err |-> ErrNone, blocked |-> FALSE,
              s |-> rd.s]
        ELSE IF rd.err
        THEN [byts |-> <<>>, err |-> ErrBufNotEnough, blocked |-> FALSE,
              s |-> rd.s]
        ELSE ReadBytesAsMathLoop(rd.s, size, n + i, byts \o rd.data)

ReadBytesAsMath(s, size) == ReadBytesAsMathLoop(s, size, 0, <<>>)

(***************************************************************************)
(* Frames.                                                                 *)
(***************************************************************************)
\* &Frame{}
ZeroFrame ==
    [FIN |-> 0, RSV1 |-> 0, RSV2 |-> 0, RSV3 |-> 0, Opcode |-> 0, MASK |-> 0,
     PayloadLen |-> 0, MaskingKey |-> <<0, 0, 0, 0>>, PayloadData |-> <<>>]

CheckOpcode(code) ==
    \/ code = OpcodeContinue
    \/ code = OpcodeText
    \/ code = OpcodeBinary
    \/ code = OpcodeClose
    \/ code = OpcodePing
    \/ code = OpcodePong

MaskData(data, maskingKey) ==
    [i \in 1..Len(data) |-> Xor8(data[i], maskingKey[((i - 1) % 4) + 1])]

\* the result of a decode: the frame as the call left it, the stream as the
\* call left it, the error, and whether the call is still waiting for bytes
DecodeResult(f, s, err, blocked) ==
    [f |-> f, s |-> s, err |-> err, blocked |-> blocked]

\* the payload of a frame, read after the header and the masking key
FromBufReaderPayload(f, s, pLen, mkb) ==
    IF pLen > 0
    THEN LET pld == ReadBytesAsMath(s, f.PayloadLen)
         IN  IF pld.blocked THEN DecodeResult(f, pld.s, ErrNone, TRUE)
             ELSE IF pld.err # ErrNone
             THEN DecodeResult(f, pld.s, ErrDeformedPayloadData, FALSE)
             ELSE DecodeResult(
                      [f EXCEPT !.PayloadData =
                           IF f.MASK = 1 THEN MaskData(pld.byts, mkb)
                           ELSE pld.byts],
                      pld.s, ErrNone, FALSE)
    ELSE DecodeResult(f, s, ErrNone, FALSE)

\* FromBufReaderKey that reads the masking key before the size check
FromBufReaderKeyFirst(f, s, pLen, maxPayloadLen) ==
    IF f.MASK = 1
    THEN LET rd == BufRead(s, 4)
         IN  IF rd.blocked THEN DecodeResult(f, rd.s, ErrNone, TRUE)
             ELSE IF rd.err \/ Len(rd.data) # 4
             THEN DecodeResult(f, rd.s, ErrDeformedMaskingKey, FALSE)
             ELSE IF f.PayloadLen > maxPayloadLen
             THEN DecodeResult(f, rd.s, ErrFrameTooLarge, FALSE)
             ELSE FromBufReaderPayload([f EXCEPT !.MaskingKey = rd.data],
                                       rd.s, pLen, rd.data)
    ELSE IF f.PayloadLen > maxPayloadLen
    THEN DecodeResult(f, s, ErrFrameTooLarge, FALSE)
    ELSE FromBufReaderPayload(f, s, pLen, <<>>)

\* the size check, then the masking key
FromBufReaderKey(f, s, pLen, maxPayloadLen) ==
    IF f.PayloadLen > maxPayloadLen
    THEN DecodeResult(f, s, ErrFrameTooLarge, FALSE)
    ELSE IF f.MASK = 1
    THEN LET rd == BufRead(s, 4)
         IN  IF rd.blocked THEN DecodeResult(f, rd.s, ErrNone, TRUE)
             ELSE IF rd.err \/ Len(rd.data) # 4
             THEN DecodeResult(f, rd.s, ErrDeformedMaskingKey, FALSE)
             ELSE FromBufReaderPayload([f EXCEPT !.MaskingKey = rd.data],
                                       rd.s, pLen, rd.data)
    ELSE FromBufReaderPayload(f, s, pLen, <<>>)

\* the extended payload length
FromBufReaderLen(f, s, pLen, maxPayloadLen) ==
    IF pLen <= 125
    THEN FromBufReaderKey([f EXCEPT !.PayloadLen = pLen], s, pLen,
                          maxPayloadLen)
    ELSE LET rd == BufRead(s, IF pLen = 126 THEN 2 ELSE 8)
         IN  IF rd.blocked THEN DecodeResult(f, rd.s, ErrNone, TRUE)
             ELSE IF rd.err \/ Len(rd.data) # (IF pLen = 126 THEN 2 ELSE 8)
             THEN DecodeResult(f, rd.s, ErrDeformedExtendedPayloadLength,
                               FALSE)
             ELSE FromBufReaderKey(
                      [f EXCEPT !.PayloadLen = BigEndian(rd.data)],
                      rd.s, pLen, maxPayloadLen)

\* f.FromBufReader(r, maxPayloadLen): f is the frame object the caller
\* passes, whose fields the decode overwrites one by one
FromBufReader(f, s, maxPayloadLen) ==
    LET rd == BufRead(s, 2)
    IN  IF rd.blocked THEN DecodeResult(f, rd.s, ErrNone, TRUE)
        ELSE IF rd.err \/ Len(rd.data) # 2
        THEN DecodeResult(f, rd.s, ErrDeformedFirstTwoBytes, FALSE)
        ELSE LET b0 == rd.data[1]
                 b1 == rd.data[2]
                 f1 == [f EXCEPT !.FIN = Shr8(b0, 7),
                                 !.RSV1 = Shr8(Shl8(b0, 1), 7),
                                 !.RSV2 = Shr8(Shl8(b0, 2), 7),
                                 !.RSV3 = Shr8(Shl8(b0, 3), 7),
                                 !.Opcode = b0 % 16]
             IN  IF ~CheckOpcode(f1.Opcode)
                 THEN DecodeResult(f1, rd.s, ErrDeformedOpcode, FALSE)
                 ELSE FromBufReaderLen([f1 EXCEPT !.MASK = Shr8(b1, 7)],
                                       rd.s, b1 % 128, maxPayloadLen)

RECURSIVE OrBits(_, _, _)
OrBits(a, b, n) ==
    IF n = 0 THEN 0
    ELSE (IF (a % 2) + (b % 2) > 0 THEN 1 ELSE 0)
         + (2 * OrBits(a \div 2, b \div 2, n - 1))

\* a | b on bytes
Or8(a, b) == OrBits(a, b, 8)

\* byte(x) of an integer x >= 0
Byte(x) == x % 256

\* f.ToBytes(mask), given the four bytes mkb that MakeMaskingKey returns: the
\* bytes, and the frame as the call leaves it
ToBytes(f, mask, mkb) ==
    LET b0 == Or8(Or8(Or8(Or8(Shl8(f.FIN, 7), Shl8(f.RSV1, 6)),
                          Shl8(f.RSV2, 5)), Shl8(f.RSV3, 4)), f.Opcode)
        pLength == Len(f.PayloadData)
        pLen == IF pLength <= 125 THEN pLength
                ELSE IF pLength <= 65535 THEN 126 ELSE 127
        extPLen == IF pLength <= 125 THEN <<>>
                   ELSE IF pLength <= 65535
                   THEN <<Byte(pLength \div 256), Byte(pLength)>>
                   ELSE <<0, 0, 0, 0, Byte(pLength \div 16777216),
                          Byte(pLength \div 65536), Byte(pLength \div 256),
                          Byte(pLength)>>
        MASK == IF mask THEN 1 ELSE f.MASK
        b1 == Or8(Shl8(MASK, 7), pLen)
    IN  [byts |-> <<b0, b1>> \o extPLen \o (IF mask THEN mkb ELSE <<>>)
                  \o f.PayloadData,
         f |-> [f EXCEPT !.MASK = MASK]]

\* closeCodeText[code], as bytes; a code the map does not hold gives ""
CloseCodeText(code) ==
    CASE code = 1000 ->
           \* "Normal Closure"
           <<78, 111, 114, 109, 97, 108, 32, 67, 108, 111, 115, 117,
             114, 101>>
      [] code = 1001 ->
           \* "Going Away"
           <<71, 111, 105, 110, 103, 32, 65, 119, 97, 121>>
      [] code = 1002 ->
           \* "Protocol error"
           <<80, 114, 111, 116, 111, 99, 111, 108, 32, 101, 114, 114,
             111, 114>>
      [] code = 1003 ->
           \* "Unsupported Data"
           <<85, 110, 115, 117, 112, 112, 111, 114, 116, 101, 100, 32,
             68, 97, 116, 97>>
      [] code = 1005 ->
           \* "No Status Rcvd"
           <<78, 111, 32, 83, 116, 97, 116, 117, 115, 32, 82, 99, 118,
             100>>
      [] code = 1006 ->
           \* "Abnormal Closure"
           <<65, 98, 110, 111, 114, 109, 97, 108, 32, 67, 108, 111,
             115, 117, 114, 101>>
      [] code = 1007 ->
           \* "Invalid frame payload data"
           <<73, 110, 118, 97, 108, 105, 100, 32, 102, 114, 97, 109,
             101, 32, 112, 97, 121, 108, 111, 97, 100, 32, 100, 97,
             116, 97>>
      [] code = 1008 ->
           \* "Policy Violation"
           <<80, 111, 108, 105, 99, 121, 32, 86, 105, 111, 108, 97,
             116, 105, 111, 110>>
      [] code = 1009 ->
           \* "Message Too Big"
           <<77, 101, 115, 115, 97, 103, 101, 32, 84, 111, 111, 32,
             66, 105, 103>>
      [] code = 1010 ->
           \* "Mandatory Ext"
           <<77, 97, 110, 100, 97, 116, 111, 114, 121, 32, 69, 120,
             116>>
      [] code = 1011 ->
           \* "Internal Server Error"
           <<73, 110, 116, 101, 114, 110, 97, 108, 32, 83, 101, 114,
             118, 101, 114, 32, 69, 114, 114, 111, 114>>
      [] code = 1015 ->
           \* "TLS handshake"
           <<84, 76, 83, 32, 104, 97, 110, 100, 115, 104, 97, 107,
             101>>
      [] OTHER -> <<>>

\* a MakeCloseFrame that takes the text of the code whenever useCodeText
MakeCloseFrameAnyReason(code, reason, useCodeText) ==
    [ZeroFrame EXCEPT
         !.FIN = 1,
         !.Opcode = OpcodeClose,
         !.PayloadData =
             <<Byte(code \div 256), Byte(code)>>
             \o (IF useCodeText THEN CloseCodeText(code) ELSE reason)]

\* MakeCloseFrame(code, reason, useCodeText), reason as bytes
MakeCloseFrame(code, reason, useCodeText) ==
    [ZeroFrame EXCEPT
         !.FIN = 1,
         !.Opcode = OpcodeClose,
         !.PayloadData =
             <<Byte(code \div 256), Byte(code)>>
             \o (IF reason = <<>> /\ useCodeText THEN CloseCodeText(code)
                 ELSE reason)]

(***************************************************************************)
(* The state.  A connection is a number of Conns, a task a pair            *)
(* <<connection, number>>: task <<c, 1>> is the goroutine that serves c    *)
(* (go conn.serve()), the others are goroutines its handler starts.        *)
(***************************************************************************)
Conns == 1..MaxConns

Tasks == Conns \X (1..MaxTasks)

ConnOf(t) == t[1]

VARIABLES
    made,       \* the connections newConn has built
    connID,     \* Conn.ID
    state,      \* Conn.state
    rwcClosed,  \* whether Conn.rwc was closed
    poolP,      \* ConnPool.p, a function from IDs to connections
    poolIdx,    \* ConnPool.idx
    poolCount,  \* ConnPool.count
    rbuf,       \* the bytes Conn.Buf's reader has buffered
    chunks,     \* the bytes the socket holds, as its next reads return them
    eof,        \* whether the peer has closed its side
    sent,       \* history: the frames the peer has sent
    wire,       \* history: what the connection has written to the socket
    wbuf,       \* what Conn.Buf's writer has buffered
    werr,       \* whether Conn.Buf's writer holds a write error
    recvMu,     \* DefaultMessageReceiver.mu is locked
    sendMu,     \* DefaultMessageSender.mu is locked
    pc,         \* where each task is
    call,       \* the library call a task is in
    ret,        \* what the last library call of a task returned
    rd,         \* the locals of a task's ReadWhole
    wr,         \* the locals of a task's send
    held,       \* the brackets (Begin...Frame) a task has open
    calls,      \* the library calls a task has made
    maskKey,    \* the four bytes MakeMaskingKey returns
    router,     \* Server.onConnOpenRouter, a function from paths to handlers
    panicked,   \* whether a registration has panicked
    reg,        \* the arguments of the last call of OnConnOpenFunc
    hsReq,      \* the HandshakeRequest under DefaultServerHandshakeCheck
    hsRet,      \* the errCode DefaultServerHandshakeCheck returned
    codecIn,    \* the frame, or the bytes, handed to the frame codec
    codecOut,   \* what the frame codec made of codecIn
    reader,     \* the bytes of the io.Reader a handler sends, and perFrameSize
    outMsg,     \* the Message a handler sends, and how
    utilIn,     \* the function of util that is called, and its arguments
    utilOut     \* what the function returned

connVars == <<made, connID, state, rwcClosed>>

poolVars == <<poolP, poolIdx, poolCount>>

inVars == <<rbuf, chunks, eof, sent>>

outVars == <<wire, wbuf, werr>>

taskVars == <<pc, call, ret, rd, wr, held, calls>>

\* the call of a function of util
utilVars == <<utilIn, utilOut>>

auxVars ==
    <<maskKey, router, panicked, reg, hsReq, hsRet, codecIn, codecOut,
      reader, outMsg, utilIn, utilOut>>

vars == <<connVars, poolVars, inVars, outVars, recvMu, sendMu, taskVars,
          auxVars>>

NoCall == [op |-> "none", start |-> StateConnecting, io |-> 0]

NoRet == [op |-> "none", start |-> StateConnecting, io |-> 0,
          err |-> ErrNone, kind |-> "none", f |-> ZeroFrame]

NoRd == [frame |-> ZeroFrame, msg |-> ZeroFrame, msgLen |-> 0, max |-> 0]

\* frame, mask: the frame a send writes; rest, size, opcode, begin: the
\* reader's bytes not yet sent, perFrameSize, the opcode and begin of
\* SendFrameWithReader; m: history, the number of the message the frame
\* belongs to; code: the errCode of a failed handshake
NoWr == [frame |-> ZeroFrame, mask |-> FALSE, rest |-> <<>>, size |-> 0,
         opcode |-> 0, begin |-> FALSE, m |-> 0, code |-> 0]

\* an entry of wire and wbuf: the HTTP response with status code, or the
\* frame f that task by wrote as part of its message m with ToBytes(mask);
\* torn says that the bytes were written in a data race
Entry(by, kind, code, f, mask, m, torn) ==
    [by |-> by, kind |-> kind, code |-> code, f |-> f, mask |-> mask,
     m |-> m, torn |-> torn]

StreamOf(c) ==
    [buf |-> rbuf[c], chunks |-> chunks[c], eof |-> eof[c],
     closed |-> rwcClosed[c]]

RECURSIVE Flatten(_)
Flatten(ss) == IF ss = <<>> THEN <<>> ELSE Head(ss) \o Flatten(Tail(ss))

\* the bytes a stream still holds
StreamLen(s) == Len(s.buf) + Len(Flatten(s.chunks))

\* task t, running the handler, makes one more library call
Calls(t) ==
    /\ pc[t] = "handler"
    /\ calls[t] < MaxCalls
    /\ calls' = [calls EXCEPT ![t] = @ + 1]

\* the call op of task t begins
Enters(t, op) ==
    call' = [call EXCEPT ![t] =
                 [op |-> op, start |-> state[ConnOf(t)], io |-> 0]]

\* the call op of task t returns err from its first statement
ReturnsAtOnce(t, op, err) ==
    /\ ret' = [ret EXCEPT ![t] =
                   [NoRet EXCEPT !.op = op, !.start = state[ConnOf(t)],
                                 !.err = err]]
    /\ UNCHANGED <<pc, call>>

\* the call of task t returns err and the value f of kind kind, having
\* moved io more bytes of the stream
Returns(t, err, kind, f, io) ==
    /\ pc' = [pc EXCEPT ![t] = "handler"]
    /\ ret' = [ret EXCEPT ![t] =
                   [op |-> call[t].op, start |-> call[t].start,
                    io |-> call[t].io + io, err |-> err, kind |-> kind,
                    f |-> f]]
    /\ call' = [call EXCEPT ![t] = NoCall]

\* the stream of connection c becomes s
StreamBecomes(c, s) ==
    /\ rbuf' = [rbuf EXCEPT ![c] = s.buf]
    /\ chunks' = [chunks EXCEPT ![c] = s.chunks]
    /\ UNCHANGED <<eof, sent>>

(***************************************************************************)
(* The peer.                                                               *)
(***************************************************************************)
\* the masking key of the frames the peer masks
PeerKey == <<1, 2, 3, 4>>

\* byte j of the payload of the k-th frame the peer sends: no two bytes the
\* peer sends on a connection are equal
PeerByte(k, j) == (16 * k) + j

PeerPayload(k, n) == [j \in 1..n |-> PeerByte(k, j)]

\* the bytes of a frame on the wire, with the 7-bit length form
PeerFrameBytes(f) ==
    <<(128 * f.FIN) + (64 * f.RSV1) + (32 * f.RSV2) + (16 * f.RSV3) + f.Opcode,
      (128 * f.MASK) + Len(f.PayloadData)>>
    \o (IF f.MASK = 1 THEN f.MaskingKey ELSE <<>>)
    \o (IF f.MASK = 1 THEN MaskData(f.PayloadData, f.MaskingKey)
        ELSE f.PayloadData)

\* the peer sends frame f: its first k bytes reach the socket together with
\* what the socket holds when join, and as a segment of their own when not;
\* the other bytes follow as one more segment
PeerSend(c, f, k, join) ==
    LET bs == PeerFrameBytes(f)
        a == Take(bs, k)
        b == Drop(bs, k)
        n == Len(chunks[c])
        first == IF a = <<>> THEN chunks[c]
                 ELSE IF join THEN [chunks[c] EXCEPT ![n] = @ \o a]
                 ELSE Append(chunks[c], a)
    IN  /\ c \in made
        /\ ~eof[c]
        /\ \E i \in 1..Len(wire[c]) :
               wire[c][i].kind = "http" /\ wire[c][i].code = 101
        /\ Len(sent[c]) < MaxFrames
        /\ join => n > 0 /\ k > 0
        /\ k \in 0..Len(bs)
        /\ chunks' = [chunks EXCEPT ![c] =
                          IF b = <<>> THEN first ELSE Append(first, b)]
        /\ sent' = [sent EXCEPT ![c] = Append(@, f)]
        /\ UNCHANGED <<rbuf, eof, connVars, poolVars, outVars, recvMu,
                       sendMu, taskVars, auxVars>>

\* the peer closes its side
PeerClose(c) ==
    /\ c \in made
    /\ ~eof[c]
    /\ eof' = [eof EXCEPT ![c] = TRUE]
    /\ UNCHANGED <<rbuf, chunks, sent, connVars, poolVars, outVars, recvMu,
                   sendMu, taskVars, auxVars>>

(***************************************************************************)
(* The message receiver.                                                   *)
(***************************************************************************)
\* r.ReadWhole(maxMsgDataLen) is called
ReadWhole(t, maxMsgDataLen) ==
    /\ Calls(t)
    /\ "recv" \notin held[t]
    /\ Enters(t, "ReadWhole")
    /\ pc' = [pc EXCEPT ![t] = "rw_lock"]
    /\ rd' = [rd EXCEPT ![t] = [NoRd EXCEPT !.max = maxMsgDataLen]]
    /\ UNCHANGED <<ret, wr, held, connVars, poolVars, inVars, outVars,
                   recvMu, sendMu, auxVars>>

\* the lock of ReadWhole without the check of the state
ReadWholeLockNoCheck(t) ==
    LET c == ConnOf(t)
    IN  /\ pc[t] = "rw_lock"
        /\ ~recvMu[c]
        /\ pc' = [pc EXCEPT ![t] = "rw_first"]
        /\ recvMu' = [recvMu EXCEPT ![c] = TRUE]
        /\ UNCHANGED <<call, ret, rd, wr, held, calls, connVars, poolVars,
                       inVars, outVars, sendMu, auxVars>>

\* r.mu.Lock(), then the check of the state
ReadWholeLock(t) ==
    LET c == ConnOf(t)
    IN  /\ pc[t] = "rw_lock"
        /\ ~recvMu[c]
        /\ IF state[c] # StateOpen
           THEN /\ Returns(t, ErrConnIsNotOpen, "none", ZeroFrame, 0)
                /\ rd' = [rd EXCEPT ![t] = NoRd]
                /\ UNCHANGED recvMu
           ELSE /\ pc' = [pc EXCEPT ![t] = "rw_first"]
                /\ recvMu' = [recvMu EXCEPT ![c] = TRUE]
                /\ UNCHANGED <<call, ret, rd>>
        /\ UNCHANGED <<wr, held, calls, connVars, poolVars, inVars, outVars,
                       sendMu, auxVars>>

\* what ReadWhole returns for the error of a decode
ReadWholeErr(err) ==
    IF err = ErrFrameTooLarge THEN ErrMessageTooLarge ELSE err

\* the decode of the first frame of the message
ReadWholeFirst(t) ==
    LET c == ConnOf(t)
        s == StreamOf(c)
        res == FromBufReader(rd[t].frame, s, rd[t].max)
        io == StreamLen(s) - StreamLen(res.s)
        msg == [ZeroFrame EXCEPT !.Opcode = res.f.Opcode,
                                 !.PayloadData = res.f.PayloadData]
    IN  /\ pc[t] = "rw_first"
        /\ ~res.blocked
        /\ StreamBecomes(c, res.s)
        /\ IF res.err # ErrNone
           THEN /\ Returns(t, ReadWholeErr(res.err), "none", ZeroFrame, io)
                /\ rd' = [rd EXCEPT ![t] = NoRd]
                /\ recvMu' = [recvMu EXCEPT ![c] = FALSE]
           ELSE IF res.f.FIN = 1
           THEN /\ Returns(t, ErrNone, "msg", msg, io)
                /\ rd' = [rd EXCEPT ![t] = NoRd]
                /\ recvMu' = [recvMu EXCEPT ![c] = FALSE]
           ELSE /\ pc' = [pc EXCEPT ![t] = "rw_loop"]
                /\ call' = [call EXCEPT ![t].io = @ + io]
                /\ rd' = [rd EXCEPT ![t].frame = res.f, ![t].msg = msg,
                                    ![t].msgLen = res.f.PayloadLen]
                /\ UNCHANGED <<ret, recvMu>>
        /\ UNCHANGED <<wr, held, calls, connVars, poolVars, outVars, sendMu,
                       auxVars>>

\* the check of the state at the head of the loop
ReadWholeLoop(t) ==
    LET c == ConnOf(t)
    IN  /\ pc[t] = "rw_loop"
        /\ IF state[c] # StateOpen
           THEN /\ Returns(t, ErrConnIsNotOpen, "none", ZeroFrame, 0)
                /\ rd' = [rd EXCEPT ![t] = NoRd]
                /\ recvMu' = [recvMu EXCEPT ![c] = FALSE]
           ELSE /\ pc' = [pc EXCEPT ![t] = "rw_next"]
                /\ UNCHANGED <<call, ret, rd, recvMu>>
        /\ UNCHANGED <<wr, held, calls, connVars, poolVars, inVars, outVars,
                       sendMu, auxVars>>

\* the decode of one more frame into the same frame object, and the rest of
\* the loop's body
ReadWholeNext(t) ==
    LET c == ConnOf(t)
        s == StreamOf(c)
        res == FromBufReader(rd[t].frame, s, rd[t].max)
        io == StreamLen(s) - StreamLen(res.s)
        msgLen == rd[t].msgLen + res.f.PayloadLen
        msg == [rd[t].msg EXCEPT !.PayloadData = @ \o res.f.PayloadData]
    IN  /\ pc[t] = "rw_next"
        /\ ~res.blocked
        /\ StreamBecomes(c, res.s)
        /\ IF res.err # ErrNone
           THEN /\ Returns(t, ReadWholeErr(res.err), "none", ZeroFrame, io)
                /\ rd' = [rd EXCEPT ![t] = NoRd]
                /\ recvMu' = [recvMu EXCEPT ![c] = FALSE]
           ELSE IF msgLen > rd[t].max
           THEN /\ Returns(t, ErrMessageTooLarge, "none", ZeroFrame, io)
                /\ rd' = [rd EXCEPT ![t] = NoRd]
                /\ recvMu' = [recvMu EXCEPT ![c] = FALSE]
           ELSE IF res.f.FIN = 1
           THEN /\ Returns(t, ErrNone, "msg", msg, io)
                /\ rd' = [rd EXCEPT ![t] = NoRd]
                /\ recvMu' = [recvMu EXCEPT ![c] = FALSE]
           ELSE /\ pc' = [pc EXCEPT ![t] = "rw_loop"]
                /\ call' = [call EXCEPT ![t].io = @ + io]
                /\ rd' = [rd EXCEPT ![t].frame = res.f, ![t].msg = msg,
                                    ![t].msgLen = msgLen]
                /\ UNCHANGED <<ret, recvMu>>
        /\ UNCHANGED <<wr, held, calls, connVars, poolVars, outVars, sendMu,
                       auxVars>>

\* BeginReadFrame without r.mu.Lock()
BeginReadFrameNoLock(t) ==
    /\ pc[t] = "handler"
    /\ "recv" \notin held[t]
    /\ calls[t] < MaxCalls
    /\ held' = [held EXCEPT ![t] = @ \cup {"recv"}]
    /\ UNCHANGED <<pc, call, ret, rd, wr, calls, connVars, poolVars, inVars,
                   outVars, recvMu, sendMu, auxVars>>

\* r.BeginReadFrame()
BeginReadFrame(t) ==
    LET c == ConnOf(t)
    IN  /\ pc[t] = "handler"
        /\ "recv" \notin held[t]
        /\ calls[t] < MaxCalls
        /\ ~recvMu[c]
        /\ recvMu' = [recvMu EXCEPT ![c] = TRUE]
        /\ held' = [held EXCEPT ![t] = @ \cup {"recv"}]
        /\ UNCHANGED <<pc, call, ret, rd, wr, calls, connVars, poolVars,
                       inVars, outVars, sendMu, auxVars>>

\* r.EndReadFrame()
EndReadFrame(t) ==
    LET c == ConnOf(t)
    IN  /\ pc[t] = "handler"
        /\ "recv" \in held[t]
        /\ recvMu' = [recvMu EXCEPT ![c] = FALSE]
        /\ held' = [held EXCEPT ![t] = @ \ {"recv"}]
        /\ UNCHANGED <<pc, call, ret, rd, wr, calls, connVars, poolVars,
                       inVars, outVars, sendMu, auxVars>>

\* r.ReadFrame(maxFramePayloadLen) is called, inside a bracket: the check of
\* the state
ReadFrame(t, maxFramePayloadLen) ==
    LET c == ConnOf(t)
    IN  /\ Calls(t)
        /\ "recv" \in held[t]
        /\ IF state[c] # StateOpen
           THEN /\ ReturnsAtOnce(t, "ReadFrame", ErrConnIsNotOpen)
                /\ UNCHANGED rd
           ELSE /\ Enters(t, "ReadFrame")
                /\ pc' = [pc EXCEPT ![t] = "rf_read"]
                /\ rd' = [rd EXCEPT ![t] =
                              [NoRd EXCEPT !.max = maxFramePayloadLen]]
                /\ UNCHANGED ret
        /\ UNCHANGED <<wr, held, connVars, poolVars, inVars, outVars, recvMu,
                       sendMu, auxVars>>

\* the decode of ReadFrame, into a frame object of its own
ReadFrameRead(t) ==
    LET c == ConnOf(t)
        s == StreamOf(c)
        res == FromBufReader(ZeroFrame, s, rd[t].max)
        io == StreamLen(s) - StreamLen(res.s)
    IN  /\ pc[t] = "rf_read"
        /\ ~res.blocked
        /\ StreamBecomes(c, res.s)
        /\ IF res.err # ErrNone
           THEN Returns(t, res.err, "none", ZeroFrame, io)
           ELSE Returns(t, ErrNone, "frame", res.f, io)
        /\ rd' = [rd EXCEPT ![t] = NoRd]
        /\ UNCHANGED <<wr, held, calls, connVars, poolVars, outVars, recvMu,
                       sendMu, auxVars>>

(***************************************************************************)
(* The connection pool.                                                    *)
(***************************************************************************)
\* an Add that numbers the connection by the count of the pool
AddByCount(c) ==
    /\ poolIdx' = poolIdx + 1
    /\ connID' = [connID EXCEPT ![c] = poolCount + 1]
    /\ poolP' = [id \in DOMAIN poolP \cup {poolCount + 1} |->
                     IF id = poolCount + 1 THEN c ELSE poolP[id]]
    /\ poolCount' = poolCount + 1

\* cp.Add(c)
Add(c) ==
    /\ poolIdx' = poolIdx + 1
    /\ connID' = [connID EXCEPT ![c] = poolIdx + 1]
    /\ poolP' = [id \in DOMAIN poolP \cup {poolIdx + 1} |->
                     IF id = poolIdx + 1 THEN c ELSE poolP[id]]
    /\ poolCount' = poolCount + 1

\* cp.Del(c)
Del(c) ==
    /\ poolP' = [id \in DOMAIN poolP \ {connID[c]} |-> poolP[id]]
    /\ poolCount' = poolCount - 1
    /\ UNCHANGED poolIdx

\* cp.Count()
Count == poolCount

(***************************************************************************)
(* The connection.                                                         *)
(***************************************************************************)
\* c.Close()
Close(c) ==
    /\ rwcClosed' = [rwcClosed EXCEPT ![c] = TRUE]
    /\ Del(c)

\* whether a write of the socket of c may succeed, and may fail
WriteOutcomes(c) ==
    IF rwcClosed[c] THEN {FALSE} ELSE IF eof[c] THEN BOOLEAN ELSE {TRUE}

\* buf.WriteString(...) of entries es, then buf.Flush(), the write of the
\* socket succeeding when ok
WriteAndFlush(c, es, ok) ==
    IF werr[c] THEN UNCHANGED outVars
    ELSE IF ok
    THEN /\ wire' = [wire EXCEPT ![c] = @ \o wbuf[c] \o es]
         /\ wbuf' = [wbuf EXCEPT ![c] = <<>>]
         /\ UNCHANGED werr
    ELSE /\ wbuf' = [wbuf EXCEPT ![c] = @ \o es]
         /\ werr' = [werr EXCEPT ![c] = TRUE]
         /\ UNCHANGED wire

\* srv.serve: a connection is accepted
Accept(c) ==
    /\ c \notin made
    /\ made' = made \cup {c}
    /\ state' = [state EXCEPT ![c] = StateConnecting]
    /\ Add(c)
    /\ pc' = [pc EXCEPT ![<<c, 1>>] = "handshake"]
    /\ UNCHANGED <<rwcClosed, inVars, outVars, recvMu, sendMu, call, ret, rd,
                   wr, held, calls, auxVars>>

\* c.doHandshake() returns errCode (0: no error), having written the 101
\* response when there is no error
DoHandshake(t, errCode) ==
    LET c == ConnOf(t)
    IN  /\ pc[t] = "handshake"
        /\ IF errCode = 0
           THEN /\ \E ok \in WriteOutcomes(c) :
                       WriteAndFlush(
                           c, <<Entry(t, "http", 101, ZeroFrame, FALSE, 0,
                                      FALSE)>>, ok)
                /\ pc' = [pc EXCEPT ![t] = "setopen"]
                /\ UNCHANGED wr
           ELSE /\ pc' = [pc EXCEPT ![t] = "failhs"]
                /\ wr' = [wr EXCEPT ![t].code = errCode]
                /\ UNCHANGED outVars
        /\ UNCHANGED <<connVars, poolVars, inVars, recvMu, sendMu, call, ret,
                       rd, held, calls, auxVars>>

\* FailHandshake that leaves the stream open and the pool as it is
FailHandshakeNoClose(t) ==
    LET c == ConnOf(t)
    IN  /\ pc[t] = "failhs"
        /\ \E ok \in WriteOutcomes(c) :
               WriteAndFlush(
                   c, <<Entry(t, "http", wr[t].code, ZeroFrame, FALSE, 0,
                              FALSE)>>, ok)
        /\ pc' = [pc EXCEPT ![t] = "done"]
        /\ wr' = [wr EXCEPT ![t] = NoWr]
        /\ UNCHANGED <<connVars, poolVars, inVars, recvMu, sendMu, call,
                       ret, rd, held, calls, auxVars>>

\* c.FailHandshake(code, err)
FailHandshake(t) ==
    LET c == ConnOf(t)
    IN  /\ pc[t] = "failhs"
        /\ \E ok \in WriteOutcomes(c) :
               WriteAndFlush(
                   c, <<Entry(t, "http", wr[t].code, ZeroFrame, FALSE, 0,
                              FALSE)>>, ok)
        /\ Close(c)
        /\ pc' = [pc EXCEPT ![t] = "done"]
        /\ wr' = [wr EXCEPT ![t] = NoWr]
        /\ UNCHANGED <<made, connID, state, inVars, recvMu, sendMu, call,
                       ret, rd, held, calls, auxVars>>

\* serve calling the handler without c.SetState(StateOpen)
SetOpenNoState(t) ==
    /\ pc[t] = "setopen"
    /\ pc' = [pc EXCEPT ![t] = "handler"]
    /\ UNCHANGED <<connVars, poolVars, inVars, outVars, recvMu, sendMu, call,
                   ret, rd, wr, held, calls, auxVars>>

\* c.SetState(StateOpen) in serve, and the call of the handler
SetOpen(t) ==
    LET c == ConnOf(t)
    IN  /\ pc[t] = "setopen"
        /\ state' = [state EXCEPT ![c] = StateOpen]
        /\ pc' = [pc EXCEPT ![t] = "handler"]
        /\ UNCHANGED <<made, connID, rwcClosed, poolVars, inVars, outVars,
                       recvMu, sendMu, call, ret, rd, wr, held, calls,
                       auxVars>>

\* the handler starts one more goroutine that uses the connection
Spawn(t) ==
    /\ t[2] > 1
    /\ pc[t] = "idle"
    /\ pc[<<ConnOf(t), 1>>] \notin {"idle", "handshake", "failhs", "setopen",
                                    "done"}
    /\ pc' = [pc EXCEPT ![t] = "handler"]
    /\ UNCHANGED <<connVars, poolVars, inVars, outVars, recvMu, sendMu, call,
                   ret, rd, wr, held, calls, auxVars>>

\* a return of the handler after which serve closes the connection
HandlerReturnCloses(t) ==
    /\ pc[t] = "handler"
    /\ held[t] = {}
    /\ pc' = [pc EXCEPT ![t] = "done"]
    /\ Close(ConnOf(t))
    /\ UNCHANGED <<made, connID, state, inVars, outVars, recvMu, sendMu, call,
                   ret, rd, wr, held, calls, auxVars>>

\* the handler (or the goroutine it started) returns
HandlerReturn(t) ==
    /\ pc[t] = "handler"
    /\ held[t] = {}
    /\ pc' = [pc EXCEPT ![t] = "done"]
    /\ UNCHANGED <<connVars, poolVars, inVars, outVars, recvMu, sendMu, call,
                   ret, rd, wr, held, calls, auxVars>>

(***************************************************************************)
(* The message sender.                                                     *)
(***************************************************************************)
\* another task is inside Frame.WriteTo on the connection of t
Racing(t) ==
    \E u \in Tasks :
        u # t /\ ConnOf(u) = ConnOf(t) /\ pc[u] \in {"write", "flush"}

\* Written without the deferred s.mu.Unlock() when the write has failed
WrittenKeepsGuard(t, err) ==
    LET c == ConnOf(t)
        op == call[t].op
    IN  IF op \in {"SendWhole", "SendWholeWithReader"}
        THEN /\ Returns(t, err, "none", ZeroFrame, 0)
             /\ sendMu' = [sendMu EXCEPT ![c] = (err # ErrNone)]
             /\ wr' = [wr EXCEPT ![t] = NoWr]
             /\ UNCHANGED held
        ELSE IF op = "SendFrame"
        THEN /\ Returns(t, err, "none", ZeroFrame, 0)
             /\ wr' = [wr EXCEPT ![t] = [NoWr EXCEPT !.m = wr[t].m]]
             /\ held' = [held EXCEPT ![t] =
                             IF err # ErrNone THEN @ \ {"msg"} ELSE @]
             /\ UNCHANGED sendMu
        ELSE IF op = "SendFrameWithReader"
        THEN IF err # ErrNone \/ wr[t].rest = <<>>
             THEN /\ Returns(t, err, "none", ZeroFrame, 0)
                  /\ wr' = [wr EXCEPT ![t] = NoWr]
                  /\ UNCHANGED <<sendMu, held>>
             ELSE /\ pc' = [pc EXCEPT ![t] = "sfr_loop"]
                  /\ wr' = [wr EXCEPT ![t].begin = FALSE]
                  /\ UNCHANGED <<call, ret, sendMu, held>>
        ELSE /\ pc' = [pc EXCEPT ![t] = "sc_close"]
             /\ wr' = [wr EXCEPT ![t] = NoWr]
             /\ UNCHANGED <<call, ret, sendMu, held>>

\* frame.WriteTo of task t has returned err: the rest of the call
Written(t, err) ==
    LET c == ConnOf(t)
        op == call[t].op
    IN  IF op \in {"SendWhole", "SendWholeWithReader"}
        THEN /\ Returns(t, err, "none", ZeroFrame, 0)
             /\ sendMu' = [sendMu EXCEPT ![c] = FALSE]
             /\ wr' = [wr EXCEPT ![t] = NoWr]
             /\ UNCHANGED held
        ELSE IF op = "SendFrame"
        THEN /\ Returns(t, err, "none", ZeroFrame, 0)
             /\ wr' = [wr EXCEPT ![t] = [NoWr EXCEPT !.m = wr[t].m]]
             /\ held' = [held EXCEPT ![t] =
                             IF err # ErrNone THEN @ \ {"msg"} ELSE @]
             /\ UNCHANGED sendMu
        ELSE IF op = "SendFrameWithReader"
        THEN IF err # ErrNone \/ wr[t].rest = <<>>
             THEN /\ Returns(t, err, "none", ZeroFrame, 0)
                  /\ wr' = [wr EXCEPT ![t] = NoWr]
                  /\ UNCHANGED <<sendMu, held>>
             ELSE /\ pc' = [pc EXCEPT ![t] = "sfr_loop"]
                  /\ wr' = [wr EXCEPT ![t].begin = FALSE]
                  /\ UNCHANGED <<call, ret, sendMu, held>>
        ELSE /\ pc' = [pc EXCEPT ![t] = "sc_close"]
             /\ wr' = [wr EXCEPT ![t] = NoWr]
             /\ UNCHANGED <<call, ret, sendMu, held>>

\* frame.WriteTo(s.conn, mask) up to Buf.Write in Conn.Write: the bytes of
\* the frame are copied to the writer's buffer
ConnWrite(t) ==
    LET c == ConnOf(t)
        byts == ToBytes(wr[t].frame, wr[t].mask, maskKey).byts
    IN  /\ pc[t] = "write"
        /\ IF werr[c]
           THEN /\ Written(t, ErrWrite)
                /\ UNCHANGED outVars
           ELSE /\ \E torn \in (IF Racing(t) THEN BOOLEAN ELSE {FALSE}) :
                       wbuf' = [wbuf EXCEPT ![c] =
                                    Append(@, Entry(t, "frame", 0,
                                                    wr[t].frame, wr[t].mask,
                                                    wr[t].m, torn))]
                /\ pc' = [pc EXCEPT ![t] = "flush"]
                /\ call' = [call EXCEPT ![t].io = @ + Len(byts)]
                /\ UNCHANGED <<wire, werr, ret, wr, held, sendMu>>
        /\ UNCHANGED <<connVars, poolVars, inVars, recvMu, rd, calls,
                       auxVars>>

\* Buf.Flush() in Conn.Write, and the return of frame.WriteTo
ConnFlush(t) ==
    LET c == ConnOf(t)
    IN  /\ pc[t] = "flush"
        /\ IF werr[c]
           THEN /\ Written(t, ErrWrite)
                /\ UNCHANGED outVars
           ELSE IF wbuf[c] = <<>>
           THEN /\ Written(t, ErrNone)
                /\ UNCHANGED outVars
           ELSE \E ok \in WriteOutcomes(c) :
                    /\ WriteAndFlush(c, <<>>, ok)
                    /\ Written(t, IF ok THEN ErrNone ELSE ErrWrite)
        /\ UNCHANGED <<connVars, poolVars, inVars, recvMu, rd, calls,
                       auxVars>>

\* WholeFrame without frame.FIN = 1
WholeFrameNoFin(msg) ==
    [ZeroFrame EXCEPT !.Opcode = msg.Opcode, !.PayloadData = msg.Data]

\* the frame SendWhole builds of msg
WholeFrame(msg) ==
    [ZeroFrame EXCEPT !.FIN = 1, !.Opcode = msg.Opcode,
                      !.PayloadData = msg.Data]

\* s.SendWhole(msg, mask) is called
SendWhole(t, msg, mask) ==
    /\ Calls(t)
    /\ "send" \notin held[t]
    /\ Enters(t, "SendWhole")
    /\ pc' = [pc EXCEPT ![t] = "sw_lock"]
    /\ wr' = [wr EXCEPT ![t] = [NoWr EXCEPT !.frame = WholeFrame(msg),
                                            !.mask = mask,
                                            !.m = calls[t] + 1]]
    /\ UNCHANGED <<ret, rd, held, connVars, poolVars, inVars, outVars,
                   recvMu, sendMu, auxVars>>

\* s.SendWholeBytes(byts, mask)
SendWholeBytes(t, byts, mask) ==
    SendWhole(t, [Opcode |-> OpcodeText, Data |-> byts], mask)

\* SendWholeLock of a sender that shares its mutex with the receiver
SendWholeLockShared(t) ==
    LET c == ConnOf(t)
    IN  /\ pc[t] = "sw_lock"
        /\ ~sendMu[c]
        /\ ~recvMu[c]
        /\ IF state[c] # StateOpen
           THEN /\ Returns(t, ErrConnIsNotOpen, "none", ZeroFrame, 0)
                /\ wr' = [wr EXCEPT ![t] = NoWr]
                /\ UNCHANGED sendMu
           ELSE /\ pc' = [pc EXCEPT ![t] = "write"]
                /\ sendMu' = [sendMu EXCEPT ![c] = TRUE]
                /\ UNCHANGED <<call, ret, wr>>
        /\ UNCHANGED <<rd, held, calls, connVars, poolVars, inVars, outVars,
                       recvMu, auxVars>>

\* s.mu.Lock() of SendWhole, then the check of the state
SendWholeLock(t) ==
    LET c == ConnOf(t)
    IN  /\ pc[t] = "sw_lock"
        /\ ~sendMu[c]
        /\ IF state[c] # StateOpen
           THEN /\ Returns(t, ErrConnIsNotOpen, "none", ZeroFrame, 0)
                /\ wr' = [wr EXCEPT ![t] = NoWr]
                /\ UNCHANGED sendMu
           ELSE /\ pc' = [pc EXCEPT ![t] = "write"]
                /\ sendMu' = [sendMu EXCEPT ![c] = TRUE]
                /\ UNCHANGED <<call, ret, wr>>
        /\ UNCHANGED <<rd, held, calls, connVars, poolVars, inVars, outVars,
                       recvMu, auxVars>>

\* s.SendWholeWithReader(r, opcode, mask) is called, r holding the bytes
\* data
SendWholeWithReader(t, data, opcode, mask) ==
    /\ Calls(t)
    /\ "send" \notin held[t]
    /\ Enters(t, "SendWholeWithReader")
    /\ pc' = [pc EXCEPT ![t] = "swr_lock"]
    /\ wr' = [wr EXCEPT ![t] = [NoWr EXCEPT !.rest = data, !.opcode = opcode,
                                            !.mask = mask,
                                            !.m = calls[t] + 1]]
    /\ UNCHANGED <<ret, rd, held, connVars, poolVars, inVars, outVars,
                   recvMu, sendMu, auxVars>>

\* s.mu.Lock() of SendWholeWithReader, the check of the state, and the frame:
\* data is made with ReadBufSize bytes, and the bytes read are appended to it
SendWholeWithReaderLock(t) ==
    LET c == ConnOf(t)
        data == [i \in 1..ReadBufSize |-> 0] \o wr[t].rest
    IN  /\ pc[t] = "swr_lock"
        /\ ~sendMu[c]
        /\ IF state[c] # StateOpen
           THEN /\ Returns(t, ErrConnIsNotOpen, "none", ZeroFrame, 0)
                /\ wr' = [wr EXCEPT ![t] = NoWr]
                /\ UNCHANGED sendMu
           ELSE /\ pc' = [pc EXCEPT ![t] = "write"]
                /\ sendMu' = [sendMu EXCEPT ![c] = TRUE]
                /\ wr' = [wr EXCEPT
                              ![t].frame =
                                  [ZeroFrame EXCEPT !.FIN = 1,
                                                    !.Opcode = wr[t].opcode,
                                                    !.PayloadData = data],
                              ![t].rest = <<>>]
                /\ UNCHANGED <<call, ret>>
        /\ UNCHANGED <<rd, held, calls, connVars, poolVars, inVars, outVars,
                       recvMu, auxVars>>

\* BeginSendFrame without s.mu.Lock()
BeginSendFrameNoLock(t) ==
    /\ pc[t] = "handler"
    /\ "send" \notin held[t]
    /\ calls[t] < MaxCalls
    /\ held' = [held EXCEPT ![t] = @ \cup {"send"}]
    /\ UNCHANGED <<pc, call, ret, rd, wr, calls, connVars, poolVars, inVars,
                   outVars, recvMu, sendMu, auxVars>>

\* s.BeginSendFrame()
BeginSendFrame(t) ==
    LET c == ConnOf(t)
    IN  /\ pc[t] = "handler"
        /\ "send" \notin held[t]
        /\ calls[t] < MaxCalls
        /\ ~sendMu[c]
        /\ sendMu' = [sendMu EXCEPT ![c] = TRUE]
        /\ held' = [held EXCEPT ![t] = @ \cup {"send"}]
        /\ UNCHANGED <<pc, call, ret, rd, wr, calls, connVars, poolVars,
                       inVars, outVars, recvMu, auxVars>>

\* s.EndSendFrame(), once the message of the bracket is complete
EndSendFrame(t) ==
    LET c == ConnOf(t)
    IN  /\ pc[t] = "handler"
        /\ "send" \in held[t]
        /\ "msg" \notin held[t]
        /\ sendMu' = [sendMu EXCEPT ![c] = FALSE]
        /\ held' = [held EXCEPT ![t] = @ \ {"send"}]
        /\ UNCHANGED <<pc, call, ret, rd, wr, calls, connVars, poolVars,
                       inVars, outVars, recvMu, auxVars>>

\* s.SendFrame(data, opcode, begin, end, mask) is called, inside a bracket:
\* the check of the state, and the frame
SendFrame(t, data, opcode, begin, end, mask) ==
    LET c == ConnOf(t)
    IN  /\ Calls(t)
        /\ "send" \in held[t]
        /\ begin = ("msg" \notin held[t])
        /\ IF state[c] # StateOpen
           THEN /\ ReturnsAtOnce(t, "SendFrame", ErrConnIsNotOpen)
                /\ held' = [held EXCEPT ![t] = @ \ {"msg"}]
                /\ UNCHANGED wr
           ELSE /\ Enters(t, "SendFrame")
                /\ pc' = [pc EXCEPT ![t] = "write"]
                /\ wr' = [wr EXCEPT ![t] =
                              [NoWr EXCEPT
                                   !.frame =
                                       [ZeroFrame EXCEPT
                                            !.Opcode = IF begin THEN opcode
                                                       ELSE OpcodeContinue,
                                            !.FIN = IF end THEN 1 ELSE 0,
                                            !.PayloadData = data],
                                   !.mask = mask,
                                   !.m = IF begin THEN calls[t] + 1
                                         ELSE wr[t].m]]
                /\ held' = [held EXCEPT ![t] =
                                IF end THEN @ \ {"msg"} ELSE @ \cup {"msg"}]
                /\ UNCHANGED ret
        /\ UNCHANGED <<rd, connVars, poolVars, inVars, outVars, recvMu,
                       sendMu, auxVars>>

\* s.SendFrameWithReader(r, opcode, perFrameSize, mask) is called, inside a
\* bracket, r holding the bytes data: the check of the state
SendFrameWithReader(t, data, opcode, perFrameSize, mask) ==
    LET c == ConnOf(t)
    IN  /\ Calls(t)
        /\ "send" \in held[t]
        /\ "msg" \notin held[t]
        /\ perFrameSize >= 1
        /\ IF state[c] # StateOpen
           THEN /\ ReturnsAtOnce(t, "SendFrameWithReader", ErrConnIsNotOpen)
                /\ UNCHANGED wr
           ELSE /\ Enters(t, "SendFrameWithReader")
                /\ pc' = [pc EXCEPT ![t] = "sfr_loop"]
                /\ wr' = [wr EXCEPT ![t] =
                              [NoWr EXCEPT !.rest = data, !.opcode = opcode,
                                           !.size = perFrameSize,
                                           !.begin = TRUE, !.mask = mask,
                                           !.m = calls[t] + 1]]
                /\ UNCHANGED ret
        /\ UNCHANGED <<rd, held, connVars, poolVars, inVars, outVars, recvMu,
                       sendMu, auxVars>>

\* SendFrameWithReaderLoop without the look one byte ahead: the frame is the
\* last one when the read did not fill the buffer
SendFrameWithReaderLoopNoPeek(t) ==
    LET c == ConnOf(t)
        buf == Take(wr[t].rest, wr[t].size)
        rest == Drop(wr[t].rest, wr[t].size)
        end == Len(buf) < wr[t].size
    IN  /\ pc[t] = "sfr_loop"
        /\ IF buf = <<>>
           THEN /\ Returns(t, ErrNone, "none", ZeroFrame, 0)
                /\ wr' = [wr EXCEPT ![t] = NoWr]
           ELSE IF state[c] # StateOpen
           THEN /\ Returns(t, ErrConnIsNotOpen, "none", ZeroFrame, 0)
                /\ wr' = [wr EXCEPT ![t] = NoWr]
           ELSE /\ pc' = [pc EXCEPT ![t] = "write"]
                /\ wr' = [wr EXCEPT
                              ![t].frame =
                                  [ZeroFrame EXCEPT
                                       !.Opcode = IF wr[t].begin
                                                  THEN wr[t].opcode
                                                  ELSE OpcodeContinue,
                                       !.FIN = IF end THEN 1 ELSE 0,
                                       !.PayloadData = buf],
                              ![t].rest = rest]
                /\ UNCHANGED <<call, ret>>
        /\ UNCHANGED <<rd, held, calls, connVars, poolVars, inVars, outVars,
                       recvMu, sendMu, auxVars>>

\* one turn of the loop of SendFrameWithReader: r.Read(buf), the look one
\* byte ahead, and SendFrame up to its check of the state
SendFrameWithReaderLoop(t) ==
    LET c == ConnOf(t)
        buf == Take(wr[t].rest, wr[t].size)
        rest == Drop(wr[t].rest, wr[t].size)
        end == rest = <<>>
    IN  /\ pc[t] = "sfr_loop"
        /\ IF buf = <<>>
           THEN /\ Returns(t, ErrNone, "none", ZeroFrame, 0)
                /\ wr' = [wr EXCEPT ![t] = NoWr]
           ELSE IF state[c] # StateOpen
           THEN /\ Returns(t, ErrConnIsNotOpen, "none", ZeroFrame, 0)
                /\ wr' = [wr EXCEPT ![t] = NoWr]
           ELSE /\ pc' = [pc EXCEPT ![t] = "write"]
                /\ wr' = [wr EXCEPT
                              ![t].frame =
                                  [ZeroFrame EXCEPT
                                       !.Opcode = IF wr[t].begin
                                                  THEN wr[t].opcode
                                                  ELSE OpcodeContinue,
                                       !.FIN = IF end THEN 1 ELSE 0,
                                       !.PayloadData = buf],
                              ![t].rest = rest]
                /\ UNCHANGED <<call, ret>>
        /\ UNCHANGED <<rd, held, calls, connVars, poolVars, inVars, outVars,
                       recvMu, sendMu, auxVars>>

\* SendClose without s.conn.SetState(StateClosed)
SendCloseKeepsState(t, code, reason, useCodeText, mask) ==
    /\ Calls(t)
    /\ Enters(t, "SendClose")
    /\ pc' = [pc EXCEPT ![t] = "write"]
    /\ wr' = [wr EXCEPT ![t] =
                  [NoWr EXCEPT
                       !.frame = MakeCloseFrame(code, reason, useCodeText),
                       !.mask = mask, !.m = calls[t] + 1]]
    /\ UNCHANGED <<connVars, ret, rd, held, poolVars, inVars, outVars,
                   recvMu, sendMu, auxVars>>

\* SendClose with s.conn.SetState(StateConnecting): the state goes back
SendCloseToConnecting(t, code, reason, useCodeText, mask) ==
    LET c == ConnOf(t)
    IN  /\ Calls(t)
        /\ Enters(t, "SendClose")
        /\ state' = [state EXCEPT ![c] = StateConnecting]
        /\ pc' = [pc EXCEPT ![t] = "write"]
        /\ wr' = [wr EXCEPT ![t] =
                      [NoWr EXCEPT
                           !.frame = MakeCloseFrame(code, reason, useCodeText),
                           !.mask = mask, !.m = calls[t] + 1]]
        /\ UNCHANGED <<made, connID, rwcClosed, ret, rd, held, poolVars,
                       inVars, outVars, recvMu, sendMu, auxVars>>

\* s.SendClose(code, reason, useCodeText, mask) is called:
\* s.conn.SetState(StateClosed), and the Close frame
SendClose(t, code, reason, useCodeText, mask) ==
    LET c == ConnOf(t)
    IN  /\ Calls(t)
        /\ Enters(t, "SendClose")
        /\ state' = [state EXCEPT ![c] = StateClosed]
        /\ pc' = [pc EXCEPT ![t] = "write"]
        /\ wr' = [wr EXCEPT ![t] =
                      [NoWr EXCEPT
                           !.frame = MakeCloseFrame(code, reason, useCodeText),
                           !.mask = mask, !.m = calls[t] + 1]]
        /\ UNCHANGED <<made, connID, rwcClosed, ret, rd, held, poolVars,
                       inVars, outVars, recvMu, sendMu, auxVars>>

\* SendClose returning without s.conn.Close() when the writer has failed
SendCloseCloseUnlessFailed(t) ==
    LET c == ConnOf(t)
    IN  /\ pc[t] = "sc_close"
        /\ IF werr[c] THEN UNCHANGED <<rwcClosed, poolVars>> ELSE Close(c)
        /\ Returns(t, ErrNone, "none", ZeroFrame, 0)
        /\ UNCHANGED <<made, connID, state, rd, wr, held, calls, inVars,
                       outVars, recvMu, sendMu, auxVars>>

\* s.conn.Close() in SendClose, and its return
SendCloseClose(t) ==
    LET c == ConnOf(t)
    IN  /\ pc[t] = "sc_close"
        /\ Close(c)
        /\ Returns(t, ErrNone, "none", ZeroFrame, 0)
        /\ UNCHANGED <<made, connID, state, rd, wr, held, calls, inVars,
                       outVars, recvMu, sendMu, auxVars>>

(***************************************************************************)
(* The specifications.                                                     *)
(***************************************************************************)
\* the keys MakeMaskingKey may return: its generator is seeded with 35 on
\* every call, so that it returns the same four bytes every time, for which
\* these four stand
MaskKeys == {<<18, 52, 86, 120>>}

\* no connection yet
ServerInit ==
    /\ made = {}
    /\ connID = [c \in Conns |-> 0]
    /\ state = [c \in Conns |-> StateConnecting]
    /\ rwcClosed = [c \in Conns |-> FALSE]
    /\ poolP = <<>>
    /\ poolIdx = 0
    /\ poolCount = 0
    /\ rbuf = [c \in Conns |-> <<>>]
    /\ chunks = [c \in Conns |-> <<>>]
    /\ eof = [c \in Conns |-> FALSE]
    /\ sent = [c \in Conns |-> <<>>]
    /\ wire = [c \in Conns |-> <<>>]
    /\ wbuf = [c \in Conns |-> <<>>]
    /\ werr = [c \in Conns |-> FALSE]
    /\ recvMu = [c \in Conns |-> FALSE]
    /\ sendMu = [c \in Conns |-> FALSE]
    /\ pc = [t \in Tasks |-> "idle"]
    /\ call = [t \in Tasks |-> NoCall]
    /\ ret = [t \in Tasks |-> NoRet]
    /\ rd = [t \in Tasks |-> NoRd]
    /\ wr = [t \in Tasks |-> NoWr]
    /\ held = [t \in Tasks |-> {}]
    /\ calls = [t \in Tasks |-> 0]

\* a HandshakeRequest before it is parsed
NoReq == [ProtoVer |-> "", Header |-> <<>>, RequestURL |-> [Path |-> ""]]

\* DefaultServerHandshakeCheck has not returned
NoCheck == [done |-> FALSE, errCode |-> 0]

\* OnConnOpenFunc was not called
NoReg == [pattern |-> "", fn |-> ""]

\* no handler is registered
RouterIdle == router = <<>> /\ panicked = FALSE /\ reg = NoReg

\* nothing is handed to DefaultServerHandshakeCheck
CheckIdle == hsReq = NoReq /\ hsRet = NoCheck

\* what the frame codec is handed: the frame f to encode with ToBytes(mask)
\* and to decode again, or the bytes byts to decode; max is the decoder's
\* maxPayloadLen
NoCodecIn ==
    [kind |-> "none", f |-> ZeroFrame, mask |-> FALSE, byts |-> <<>>,
     max |-> 0]

\* the bytes ToBytes returned and the frame as it left it, then the result of
\* FromBufReader
NoCodecOut ==
    [stage |-> "none", byts |-> <<>>, f |-> ZeroFrame,
     res |-> DecodeResult(ZeroFrame, <<>>, ErrNone, FALSE)]

\* nothing is handed to the frame codec
CodecIdle == codecIn = NoCodecIn /\ codecOut = NoCodecOut

\* a handler's reader before it is made
NoReader == [data |-> <<>>, size |-> 0]

\* no handler has a reader
ReaderIdle == reader = NoReader

\* a handler's Message before it is made: api is the operation that sends it
NoMsg == [api |-> "none", Opcode |-> 0, Data |-> <<>>, mask |-> FALSE]

\* no handler has a Message
MsgIdle == outMsg = NoMsg

\* no function of util is called
NoUtilIn == [fn |-> "none"]

NoUtilOut == [done |-> FALSE]

UtilIdle == utilIn = NoUtilIn /\ utilOut = NoUtilOut

\* nothing registered, nothing handed to the handshake check or to the codec
AuxInit ==
    /\ maskKey \in MaskKeys
    /\ RouterIdle
    /\ CheckIdle
    /\ CodecIdle
    /\ ReaderIdle
    /\ MsgIdle
    /\ UtilIdle

Init == ServerInit /\ AuxInit

\* a frame of the peer
PeerFrame(fin, opcode, mask, data) ==
    [ZeroFrame EXCEPT !.FIN = fin, !.Opcode = opcode, !.MASK = mask,
                      !.PayloadLen = Len(data),
                      !.MaskingKey = IF mask = 1 THEN PeerKey
                                     ELSE <<0, 0, 0, 0>>,
                      !.PayloadData = data]

\* the bytes task t sends
TaskData(t) == <<96 + t[2]>>

\* the steps of the receiver that task t takes
ReceiverNext(t, maxes) ==
    \/ \E max \in maxes : ReadWhole(t, max)
    \/ ReadWholeLock(t)
    \/ ReadWholeFirst(t)
    \/ ReadWholeLoop(t)
    \/ ReadWholeNext(t)
    \/ BeginReadFrame(t)
    \/ \E max \in maxes : ReadFrame(t, max)
    \/ ReadFrameRead(t)
    \/ EndReadFrame(t)

\* the steps of the sender that task t takes
SenderNext(t) ==
    \/ SendWhole(t, [Opcode |-> OpcodeText, Data |-> TaskData(t)], FALSE)
    \/ SendWholeLock(t)
    \/ SendWholeWithReader(t, TaskData(t), OpcodeBinary, FALSE)
    \/ SendWholeWithReaderLock(t)
    \/ BeginSendFrame(t)
    \/ \E begin, end \in BOOLEAN :
           SendFrame(t, TaskData(t), OpcodeText, begin, end, FALSE)
    \/ SendFrameWithReader(t, TaskData(t) \o TaskData(t), OpcodeText, 1,
                           FALSE)
    \/ SendFrameWithReaderLoop(t)
    \/ EndSendFrame(t)
    \/ SendClose(t, CloseCodeGoingAway, <<>>, TRUE, FALSE)
    \/ SendCloseClose(t)
    \/ ConnWrite(t)
    \/ ConnFlush(t)

\* the steps of the serving goroutine and of the handler's goroutines
ServeNext(t) ==
    \/ \E errCode \in {0, 400, 404} : DoHandshake(t, errCode)
    \/ FailHandshake(t)
    \/ SetOpen(t)
    \/ Spawn(t)
    \/ HandlerReturn(t)

\* one connection, accepted, served and used by MaxTasks tasks that read
\* whole messages, send whole messages and close, while the peer sends a
\* fragment and a Close frame
SpecTasks == {t \in Tasks : ConnOf(t) = 1}

SpecPeerFrames(k) ==
    {PeerFrame(0, OpcodeText, 1, PeerPayload(k, 1)),
     PeerFrame(1, OpcodeClose, 1, <<>>)}

Next ==
    \/ Accept(1)
    \/ \E f \in SpecPeerFrames(Len(sent[1]) + 1) :
           PeerSend(1, f, Len(PeerFrameBytes(f)), FALSE)
    \/ PeerClose(1)
    \/ \E t \in SpecTasks :
           \/ ServeNext(t)
           \/ ReadWhole(t, MaxPayload)
           \/ ReadWholeLock(t)
           \/ ReadWholeFirst(t)
           \/ ReadWholeLoop(t)
           \/ ReadWholeNext(t)
           \/ SendWhole(t, [Opcode |-> OpcodeText, Data |-> TaskData(t)],
                        FALSE)
           \/ SendWholeLock(t)
           \/ SendClose(t, CloseCodeGoingAway, <<>>, TRUE, FALSE)
           \/ SendCloseClose(t)
           \/ ConnWrite(t)
           \/ ConnFlush(t)

Spec == Init /\ [][Next]_vars

\* connection 1 after its handshake, the tasks ts running its handler
OpenConn(ts) ==
    /\ made = {1}
    /\ connID = [c \in Conns |-> IF c = 1 THEN 1 ELSE 0]
    /\ state = [c \in Conns |-> IF c = 1 THEN StateOpen ELSE StateConnecting]
    /\ rwcClosed = [c \in Conns |-> FALSE]
    /\ poolP = <<1>>
    /\ poolIdx = 1
    /\ poolCount = 1
    /\ rbuf = [c \in Conns |-> <<>>]
    /\ chunks = [c \in Conns |-> <<>>]
    /\ eof = [c \in Conns |-> FALSE]
    /\ sent = [c \in Conns |-> <<>>]
    /\ wire = [c \in Conns |->
                  IF c = 1
                  THEN <<Entry(<<1, 1>>, "http", 101, ZeroFrame, FALSE, 0,
                               FALSE)>>
                  ELSE <<>>]
    /\ wbuf = [c \in Conns |-> <<>>]
    /\ werr = [c \in Conns |-> FALSE]
    /\ recvMu = [c \in Conns |-> FALSE]
    /\ sendMu = [c \in Conns |-> FALSE]
    /\ pc = [t \in Tasks |-> IF t \in ts THEN "handler" ELSE "idle"]
    /\ call = [t \in Tasks |-> NoCall]
    /\ ret = [t \in Tasks |-> NoRet]
    /\ rd = [t \in Tasks |-> NoRd]
    /\ wr = [t \in Tasks |-> NoWr]
    /\ held = [t \in Tasks |-> {}]
    /\ calls = [t \in Tasks |-> 0]

OpenInit(ts) == OpenConn(ts) /\ AuxInit

\* an open connection whose tasks send, with every operation of the sender
SendInit == OpenInit(SpecTasks)

SendNext ==
    \/ PeerClose(1)
    \/ \E t \in SpecTasks : SenderNext(t)

SpecSend == SendInit /\ [][SendNext]_vars

\* an open connection whose handler uses every operation, while a second
\* task closes the connection and the peer sends a fragment and a Close frame
OpsTask == <<1, 1>>

OpsInit == OpenInit(SpecTasks)

\* the k-th frame of the peer
OpsPeerFrame(k) ==
    IF k = 1 THEN PeerFrame(0, OpcodeText, 1, PeerPayload(k, 1))
    ELSE PeerFrame(1, OpcodeClose, 1, <<>>)

OpsNext ==
    \/ PeerSend(1, OpsPeerFrame(Len(sent[1]) + 1),
                Len(PeerFrameBytes(OpsPeerFrame(Len(sent[1]) + 1))), FALSE)
    \/ PeerClose(1)
    \/ ReceiverNext(OpsTask, {MaxPayload})
    \/ SenderNext(OpsTask)
    \/ \E t \in SpecTasks \ {OpsTask} :
           \/ SendClose(t, CloseCodeNormalClosure, <<>>, FALSE, FALSE)
           \/ SendCloseClose(t)
           \/ ConnWrite(t)
           \/ ConnFlush(t)

SpecOps == OpsInit /\ [][OpsNext]_vars

\* an open connection whose handler only receives, from a peer that sends
\* any frames in any segments
RecvTask == <<1, 1>>

RecvInit == OpenInit({RecvTask})

RecvPeerFrames(k) ==
    {PeerFrame(fin, IF k = 1 THEN OpcodeText ELSE OpcodeContinue, mask,
               PeerPayload(k, n)) :
         fin \in {0, 1}, mask \in {0, 1}, n \in 0..MaxPayload}

RecvNext ==
    \/ \E f \in RecvPeerFrames(Len(sent[1]) + 1), join \in BOOLEAN :
           \E k \in 0..Len(PeerFrameBytes(f)) : PeerSend(1, f, k, join)
    \/ PeerClose(1)
    \/ ReceiverNext(RecvTask, {MaxPayload})

SpecRecv == RecvInit /\ [][RecvNext]_vars

(***************************************************************************)
(* The properties.                                                         *)
(***************************************************************************)
\* C1: the state of every connection only moves forward along Connecting,
\* Open, Closed: no step lowers it, Open is entered only from Connecting, and
\* Closing is entered only from Open.
StateMonotone ==
    [][\A c \in Conns :
           state'[c] # state[c] =>
               /\ state'[c] > state[c]
               /\ state'[c] = StateOpen => state[c] = StateConnecting
               /\ state'[c] = StateClosing => state[c] = StateOpen]_vars

\* a connection that was accepted, opened and closed by SendClose
StateMonotoneWitness ==
    /\ state[1] = StateClosed
    /\ \E t \in SpecTasks : ret[t].op = "SendClose" /\ pc[t] = "done"

\* C2: ConnPool.count equals the number of entries of the ID map, Add and Del
\* being single steps (the original statement, which the code violates).
CountIsCardinality == Count = Cardinality(DOMAIN poolP)

\* the tasks of connection c that are inside Frame.WriteTo
Writers(c) == {t \in Tasks : ConnOf(t) = c /\ pc[t] \in {"write", "flush"}}

\* C3: at most one task at a time is inside Frame.WriteTo (Conn.Write) of a
\* connection (the original statement, which the code violates).
OneWriter == \A c \in Conns : Cardinality(Writers(c)) <= 1

\* the frames handed to the writer of connection c, in order
Handed(c) == wire[c] \o wbuf[c]

\* entry e is a frame of a message (not the HTTP response, not a Close frame)
IsMessageFrame(e) == e.kind = "frame" /\ e.f.Opcode # OpcodeClose

\* entries d and e are frames of the same message
SameMessage(d, e) == d.by = e.by /\ d.m = e.m

\* C4: the frames of one message are contiguous on the wire: between two
\* frames of a message sent through SendWhole, SendWholeWithReader or a
\* BeginSendFrame ... EndSendFrame bracket there is no frame of another message.
MessagesContiguous ==
    \A c \in Conns :
        LET w == Handed(c)
        IN  \A i, j, k \in 1..Len(w) :
                (/\ i < j
                 /\ j < k
                 /\ IsMessageFrame(w[i])
                 /\ IsMessageFrame(w[j])
                 /\ IsMessageFrame(w[k])
                 /\ SameMessage(w[i], w[k]))
                    => SameMessage(w[i], w[j])

\* two tasks have sent: one a message of two frames, the other a message, and
\* all of it has reached the wire
MessagesContiguousWitness ==
    \E i, j, k \in 1..Len(wire[1]) :
        /\ i < j
        /\ IsMessageFrame(wire[1][i])
        /\ IsMessageFrame(wire[1][j])
        /\ IsMessageFrame(wire[1][k])
        /\ SameMessage(wire[1][i], wire[1][j])
        /\ wire[1][i].f.FIN = 0
        /\ wire[1][j].f.FIN = 1
        /\ wire[1][k].by # wire[1][i].by

\* the number of the first frame of fs with FIN = 1, and 0 when there is none
RECURSIVE FirstFin(_, _)
FirstFin(fs, i) ==
    IF i > Len(fs) THEN 0 ELSE IF fs[i].FIN = 1 THEN i ELSE FirstFin(fs, i + 1)

\* payload(f1) ++ ... ++ payload(fn) of the first n frames of fs
RECURSIVE Payloads(_, _)
Payloads(fs, n) ==
    IF n = 0 THEN <<>> ELSE Payloads(fs, n - 1) \o fs[n].PayloadData

\* the first call of the receiving task was ReadWhole and returned a message
FirstReadWholeReturned ==
    /\ calls[RecvTask] = 1
    /\ pc[RecvTask] = "handler"
    /\ ret[RecvTask].op = "ReadWhole"
    /\ ret[RecvTask].err = ErrNone
    /\ ret[RecvTask].kind = "msg"

\* C5: the message ReadWhole returns for the frames f1..fn of a message
\* within the cap has the opcode of f1 and the data payload(f1) ++ ... ++
\* payload(fn) (the original statement, which the code violates).
ReadWholeConcatenates ==
    LET fs == sent[1]
        n == FirstFin(fs, 1)
    IN  (/\ FirstReadWholeReturned
         /\ n > 0
         /\ Len(Payloads(fs, n)) <= MaxPayload)
            => /\ ret[RecvTask].f.Opcode = fs[1].Opcode
               /\ ret[RecvTask].f.PayloadData = Payloads(fs, n)

\* C6: ReadWhole(maxMsgDataLen), called here with MaxPayload, never returns a
\* message whose Data is longer than maxMsgDataLen (the original statement,
\* which the code violates).
ReadWholeWithinCap ==
    (ret[RecvTask].op = "ReadWhole" /\ ret[RecvTask].kind = "msg")
        => Len(ret[RecvTask].f.PayloadData) <= MaxPayload

\* the bytes connection c has yet to read
Unread(c) == rbuf[c] \o Flatten(chunks[c])

\* C7: a decode that runs when the socket holds the bytes of two frames, as
\* one segment, succeeds with the payload of the first and leaves exactly the
\* bytes of the second (the original statement, which the code violates).
DecodeConsumesOneFrame ==
    [][(/\ pc[RecvTask] = "rf_read"
        /\ pc'[RecvTask] = "handler"
        /\ calls[RecvTask] = 1
        /\ Len(sent[1]) = 2
        /\ rbuf[1] = <<>>
        /\ chunks[1] = <<PeerFrameBytes(sent[1][1])
                             \o PeerFrameBytes(sent[1][2])>>)
           => /\ ret'[RecvTask].err = ErrNone
              /\ ret'[RecvTask].f.PayloadData = sent[1][1].PayloadData
              /\ Unread(1)' = PeerFrameBytes(sent[1][2])]_vars

\* the last call of task t was a receive that returned a Close message
GotClose(t) ==
    /\ ret[t].op \in {"ReadWhole", "ReadFrame"}
    /\ ret[t].kind \in {"msg", "frame"}
    /\ ret[t].f.Opcode = OpcodeClose

\* the last call of task t failed with an error of the stream
GotIOError(t) ==
    ret[t].err \in {ErrDeformedFirstTwoBytes, ErrDeformedExtendedPayloadLength,
                    ErrDeformedMaskingKey, ErrDeformedPayloadData, ErrWrite}

CallsSendClose(t) == call[t].op # "SendClose" /\ call'[t].op = "SendClose"

SendCloseOrder ==
    [][\A t \in Tasks :
           LET c == ConnOf(t)
           IN  /\ CallsSendClose(t)
                      => /\ state'[c] = StateClosed
                         /\ pc'[t] = "write"
                         /\ wire'[c] = wire[c]
                         /\ wbuf'[c] = wbuf[c]
                         /\ rwcClosed'[c] = rwcClosed[c]
                         /\ poolP' = poolP
               /\ (call[t].op = "SendClose" /\ pc[t] = "write"
                       /\ pc'[t] # "write")
                      => /\ state[c] = StateClosed
                         /\ IF werr[c]
                            THEN pc'[t] = "sc_close" /\ wbuf'[c] = wbuf[c]
                            ELSE /\ pc'[t] = "flush"
                                 /\ Len(wbuf'[c]) = Len(wbuf[c]) + 1
                                 /\ wbuf'[c][Len(wbuf'[c])].by = t
                                 /\ wbuf'[c][Len(wbuf'[c])].f.Opcode
                                        = OpcodeClose
               /\ (call[t].op = "SendClose" /\ pc[t] = "flush"
                       /\ pc'[t] # "flush")
                      => state[c] = StateClosed /\ pc'[t] = "sc_close"
               /\ (call[t].op = "SendClose" /\ call'[t].op # "SendClose")
                      => /\ pc[t] = "sc_close"
                         /\ rwcClosed'[c]
                         /\ connID[c] \notin DOMAIN poolP'
                         /\ ret'[t].op = "SendClose"
                         /\ ret'[t].err = ErrNone]_vars

\* SendClose has returned after the write of its Close frame failed
SendCloseOrderWitness ==
    \E t \in SpecTasks :
        /\ ret[t].op = "SendClose"
        /\ pc[t] = "handler"
        /\ werr[1]
        /\ rwcClosed[1]
        /\ connID[1] \notin DOMAIN poolP
        /\ \A i \in 1..Len(wire[1]) : wire[1][i].kind # "frame"

\* the operations that check the state
GuardedOps ==
    {"ReadWhole", "ReadFrame", "SendWhole", "SendWholeWithReader",
     "SendFrame", "SendFrameWithReader"}

\* C10: a call of ReadWhole, ReadFrame, SendWhole, SendWholeWithReader,
\* SendFrame or SendFrameWithReader that starts when the state is not Open
\* moves no byte of the stream, and returns "conn is not open".
NotOpenFails ==
    \A t \in Tasks :
        /\ (call[t].op \in GuardedOps /\ call[t].start # StateOpen)
               => call[t].io = 0 /\ pc[t] \in {"rw_lock", "sw_lock", "swr_lock"}
        /\ (ret[t].op \in GuardedOps /\ ret[t].start # StateOpen)
               => ret[t].err = ErrConnIsNotOpen /\ ret[t].io = 0

\* SendClose has returned, and a ReadWhole called after it has failed
NotOpenFailsWitness ==
    /\ \E t \in SpecTasks : ret[t].op = "SendClose"
    /\ rwcClosed[1]
    /\ ret[OpsTask].op = "ReadWhole"
    /\ ret[OpsTask].start = StateClosed
    /\ ret[OpsTask].err = ErrConnIsNotOpen

(***************************************************************************)
(* The default handshake check.  A Header is a function from the keys      *)
(* present to the sequences of their values, none of them empty.           *)
(***************************************************************************)
\* http.StatusBadRequest, http.StatusNotFound
StatusBadRequest == 400
StatusNotFound == 404

\* strings.Contains(s, sub)
Contains(s, sub) ==
    \E i \in 1..(Len(s) - Len(sub) + 1) : SubSeq(s, i, i + Len(sub) - 1) = sub

\* h.GetOne(key)
GetOne(h, key) == h[key][1]

\* h.HasKey(key)
HasKey(h, key) == key \in DOMAIN h

\* h.HasKeyAndValEqual(key, val)
HasKeyAndValEqual(h, key, val) ==
    IF key \notin DOMAIN h THEN FALSE ELSE h[key][1] = val

\* HasKeyAndValContains looking at every value of the key
HasKeyAndValContainsAny(h, key, val) ==
    IF key \notin DOMAIN h THEN FALSE
    ELSE \E i \in 1..Len(h[key]) : Contains(h[key][i], val)

\* h.HasKeyAndValContains(key, val)
HasKeyAndValContains(h, key, val) ==
    IF key \notin DOMAIN h THEN FALSE ELSE Contains(h[key][1], val)

\* r.HasHandler(reqPath)
HasHandler(r, reqPath) == reqPath \in DOMAIN r

\* the errCode of DefaultServerHandshakeCheck(req, conn), r being
\* conn.Server.onConnOpenRouter; err is nil exactly when errCode is 0
DefaultServerHandshakeCheck(req, r) ==
    LET header == req.Header
    IN  IF req.ProtoVer # "1.1" THEN StatusBadRequest
        ELSE IF ~HasKey(header, "Host") THEN StatusBadRequest
        ELSE IF ~HasKeyAndValContains(header, "Connection", "Upgrade")
        THEN StatusBadRequest
        ELSE IF ~HasKeyAndValEqual(header, "Upgrade", "websocket")
        THEN StatusBadRequest
        ELSE IF ~HasKeyAndValEqual(header, "Sec-WebSocket-Version", "13")
        THEN StatusBadRequest
        ELSE IF ~HasKey(header, "Sec-WebSocket-Version")
        THEN StatusBadRequest
        ELSE IF GetOne(header, "Sec-WebSocket-Version") # "13"
        THEN StatusBadRequest
        ELSE IF ~HasKey(header, "Sec-WebSocket-Key") THEN StatusBadRequest
        ELSE IF ~HasHandler(r, req.RequestURL.Path) THEN StatusNotFound
        ELSE 0

\* the header keys the requests of the check carry, and for each the value
\* sequences it may have (<<>>: the key is absent)
CheckKeys ==
    {"Host", "Connection", "Upgrade", "Sec-WebSocket-Version",
     "Sec-WebSocket-Key"}

CheckVals(k) ==
    CASE k = "Host" -> {<<>>, <<"example.com">>}
      [] k = "Connection" ->
             {<<>>, <<"Upgrade">>, <<"keep-alive, Upgrade">>,
              <<"close", "Upgrade">>, <<"upgrade">>}
      [] k = "Upgrade" ->
             {<<>>, <<"websocket">>, <<"WebSocket">>, <<"h2c", "websocket">>}
      [] k = "Sec-WebSocket-Version" -> {<<>>, <<"13">>, <<"8">>, <<"8", "13">>}
      [] k = "Sec-WebSocket-Key" -> {<<>>, <<"dGhlIHNhbXBsZSBub25jZQ==">>}

\* the Header with the values g gives to the keys
HeaderOf(g) == [k \in {j \in DOMAIN g : g[j] # <<>>} |-> g[k]]

CheckRequests ==
    {[ProtoVer |-> v, Header |-> HeaderOf(g), RequestURL |-> [Path |-> p]] :
         v \in {"1.1", "1.0"},
         g \in {f \in [CheckKeys -> UNION {CheckVals(k) : k \in CheckKeys}] :
                    \A k \in CheckKeys : f[k] \in CheckVals(k)},
         p \in {"/", "/chat"}}

\* a server with a handler for "/", and a parsed request
CheckInit ==
    /\ ServerInit
    /\ maskKey \in MaskKeys
    /\ router = [p \in {"/"} |-> "echo"]
    /\ panicked = FALSE
    /\ reg = [pattern |-> "/", fn |-> "echo"]
    /\ hsReq \in CheckRequests
    /\ hsRet = NoCheck
    /\ CodecIdle
    /\ ReaderIdle
    /\ MsgIdle
    /\ UtilIdle

\* DefaultServerHandshakeCheck(hsReq, conn) returns
HandshakeCheck ==
    /\ ~hsRet.done
    /\ hsRet' = [done |-> TRUE,
                 errCode |-> DefaultServerHandshakeCheck(hsReq, router)]
    /\ UNCHANGED <<connVars, poolVars, inVars, outVars, recvMu, sendMu,
                   taskVars, maskKey, router, panicked, reg, hsReq,
                   codecIn, codecOut, reader, outMsg,
                   utilVars>>

SpecCheck == CheckInit /\ [][HandshakeCheck]_vars

\* the six rules of the header and the version
HeaderRules(req) ==
    LET h == req.Header
    IN  /\ req.ProtoVer = "1.1"
        /\ "Host" \in DOMAIN h
        /\ "Connection" \in DOMAIN h
        /\ Contains(h["Connection"][1], "Upgrade")
        /\ "Upgrade" \in DOMAIN h
        /\ h["Upgrade"][1] = "websocket"
        /\ "Sec-WebSocket-Version" \in DOMAIN h
        /\ h["Sec-WebSocket-Version"][1] = "13"
        /\ "Sec-WebSocket-Key" \in DOMAIN h

\* C11: the default handshake check accepts a request exactly when the six
\* rules hold and the open router has a handler for the path; it returns 400
\* exactly when one of the six rules fails, and 404 exactly when the six hold
\* and the path has no handler.
CheckAccepts ==
    hsRet.done =>
        LET routed == hsReq.RequestURL.Path \in DOMAIN router
        IN  /\ hsRet.errCode = 0 <=> (HeaderRules(hsReq) /\ routed)
            /\ hsRet.errCode = 400 <=> ~HeaderRules(hsReq)
            /\ hsRet.errCode = 404 <=> (HeaderRules(hsReq) /\ ~routed)

\* a request with "Connection: keep-alive, Upgrade" was accepted
CheckAcceptsWitness ==
    /\ hsRet.done
    /\ hsRet.errCode = 0
    /\ hsReq.Header["Connection"] = <<"keep-alive, Upgrade">>

(***************************************************************************)
(* The handshake of a connection.                                          *)
(***************************************************************************)
\* the serving goroutine of connection c
Server(c) == <<c, 1>>

\* task t is not inside the open handler
Outside(t) == pc[t] \in {"idle", "handshake", "failhs", "setopen", "done"}

\* the HTTP responses handed to the stream of c, flushed or not
Responses(c) == SelectSeq(Handed(c), LAMBDA e : e.kind = "http")

\* C12: when the handshake fails, FailHandshake writes one HTTP error
\* response with the error's status, closes the stream and removes the
\* connection from the pool; from then on the state stays Connecting, the
\* stream stays closed, the pool entry stays away and no task of the
\* connection runs the open handler.
FailedHandshakeReleases ==
    [][\A c \in Conns :
           LET t == Server(c)
           IN  /\ (pc[t] = "failhs" /\ pc'[t] # "failhs")
                      => /\ wr[t].code \in {400, 404}
                         /\ Responses(c) = <<>>
                         /\ Len(Responses(c)') = 1
                         /\ Responses(c)'[1].code = wr[t].code
                         /\ rwcClosed'[c]
                         /\ connID[c] \notin DOMAIN poolP'
                         /\ state'[c] = StateConnecting
                         /\ pc'[t] = "done"
               /\ (pc[t] = "done" /\ state[c] = StateConnecting)
                      => /\ state'[c] = StateConnecting
                         /\ rwcClosed'[c]
                         /\ connID[c] \notin DOMAIN poolP'
                         /\ Responses(c)' = Responses(c)
                         /\ \A u \in Tasks :
                                ConnOf(u) = c => Outside(u) /\ Outside(u)'
      ]_vars

\* a connection whose handshake failed with 404, released
FailedHandshakeReleasesWitness ==
    /\ pc[Server(1)] = "done"
    /\ state[1] = StateConnecting
    /\ rwcClosed[1]
    /\ poolP = <<>>
    /\ Len(Responses(1)) = 1
    /\ Responses(1)[1].code = 404

\* C13: on a successful handshake the 101 response is handed to the stream
\* before the state becomes Open, the state becomes Open in the step that
\* invokes the open handler, the handler is invoked in no other step and so
\* once, and no task runs the handler while the state is Connecting.
HandshakeOrder ==
    /\ [](\A t \in Tasks : ~Outside(t) => state[ConnOf(t)] # StateConnecting)
    /\ [][\A c \in Conns :
              LET t == Server(c)
              IN  /\ (state'[c] = StateOpen /\ state[c] # StateOpen)
                         => /\ pc[t] = "setopen"
                            /\ Len(Responses(c)) = 1
                            /\ Responses(c)[1].code = 101
                            /\ pc'[t] = "handler"
                  /\ (Outside(t) /\ ~Outside(t)')
                         => /\ pc[t] = "setopen"
                            /\ state[c] = StateConnecting
                            /\ state'[c] = StateOpen
                  /\ pc[t] = "done" => pc'[t] = "done"
         ]_vars

\* the handler of a connection was invoked after the 101 response reached the
\* peer
HandshakeOrderWitness ==
    /\ pc[Server(1)] = "handler"
    /\ calls[Server(1)] = 0
    /\ state[1] = StateOpen
    /\ wire[1] # <<>>
    /\ wire[1][1].code = 101

(***************************************************************************)
(* The registration of open handlers.                                      *)
(***************************************************************************)
\* r.HandleFunc(pattern, fn): the router after r[pattern] = fn
HandleFunc(r, pattern, fn) ==
    [p \in DOMAIN r \cup {pattern} |-> IF p = pattern THEN fn ELSE r[p]]

\* pattern[len(pattern)-1], "" when the index is out of range
LastByte(pattern) ==
    IF pattern = "" THEN "" ELSE SubSeq(pattern, Len(pattern), Len(pattern))

\* OnConnOpenFunc that registers the pattern alone
OnConnOpenFuncNoAlias(pattern, fn) ==
    /\ ~panicked
    /\ reg' = [pattern |-> pattern, fn |-> fn]
    /\ IF HasHandler(router, pattern)
       THEN panicked' = TRUE /\ UNCHANGED router
       ELSE /\ router' = HandleFunc(router, pattern, fn)
            /\ panicked' = (pattern = "")
    /\ UNCHANGED <<connVars, poolVars, inVars, outVars, recvMu, sendMu,
                   taskVars, maskKey, hsReq, hsRet, codecIn, codecOut,
                   reader, outMsg,
                   utilVars>>

\* srv.OnConnOpenFunc(pattern, fn); the index of an empty pattern's last byte
\* panics, after the pattern is registered
OnConnOpenFunc(pattern, fn) ==
    /\ ~panicked
    /\ reg' = [pattern |-> pattern, fn |-> fn]
    /\ IF HasHandler(router, pattern)
       THEN panicked' = TRUE /\ UNCHANGED router
       ELSE LET r1 == HandleFunc(router, pattern, fn)
            IN  IF pattern = ""
                THEN router' = r1 /\ panicked' = TRUE
                ELSE IF LastByte(pattern) # "/"
                THEN /\ router' = HandleFunc(r1, pattern \o "/", fn)
                     /\ UNCHANGED panicked
                ELSE router' = r1 /\ UNCHANGED panicked
    /\ UNCHANGED <<connVars, poolVars, inVars, outVars, recvMu, sendMu,
                   taskVars, maskKey, hsReq, hsRet, codecIn, codecOut,
                   reader, outMsg,
                   utilVars>>

\* the patterns and the handlers that are registered
Patterns == {"", "/", "/a", "/a/", "/b", "/b/"}

Handlers == {"h1", "h2"}

\* a server after ApplyDefaultCfg
RouterInit ==
    /\ ServerInit
    /\ maskKey \in MaskKeys
    /\ RouterIdle
    /\ CheckIdle
    /\ CodecIdle
    /\ ReaderIdle
    /\ MsgIdle
    /\ UtilIdle

RouterNext == \E pattern \in Patterns, fn \in Handlers :
                  OnConnOpenFunc(pattern, fn)

SpecRouter == RouterInit /\ [][RouterNext]_vars

\* the paths a registration of pattern is to add: the pattern and, when it
\* does not end in "/", its alias
Added(pattern) ==
    IF pattern = "" \/ LastByte(pattern) = "/" THEN {pattern}
    ELSE {pattern, pattern \o "/"}

\* C14: a registration of a path that is in the router table, or whose
\* trailing-slash alias is in the table, panics and leaves the table as it
\* is; no registration changes the handler of a path that has one (the
\* original statement, which the code violates).
RegistrationNeverReplaces ==
    [][/\ Added(reg'.pattern) \cap DOMAIN router # {}
              => panicked' /\ router' = router
       /\ \A p \in DOMAIN router :
              p \in DOMAIN router' /\ router'[p] = router[p]]_vars

\* C15: a registration of P with h that does not panic makes P map to h,
\* and P + "/" too when P does not end in "/"; it adds no other path and
\* changes the handler of no other path.
RegistrationAddsAlias ==
    [][~panicked' =>
           LET P == reg'.pattern
           IN  /\ DOMAIN router' = DOMAIN router \cup Added(P)
               /\ \A p \in Added(P) : router'[p] = reg'.fn
               /\ \A p \in DOMAIN router \ Added(P) : router'[p] = router[p]
               /\ LastByte(P) # "/" => Cardinality(Added(P)) = 2
               /\ LastByte(P) = "/" => Added(P) = {P}]_vars

\* "/a" was registered with h1, which added "/a/", and then "/b/" with h2,
\* which added nothing else
RegistrationAddsAliasWitness ==
    /\ ~panicked
    /\ reg = [pattern |-> "/b/", fn |-> "h2"]
    /\ DOMAIN router = {"/a", "/a/", "/b/"}
    /\ router["/a"] = "h1"
    /\ router["/a/"] = "h1"

(***************************************************************************)
(* The frame codec on its own: a frame is encoded and the bytes are        *)
(* decoded, or bytes are decoded.                                          *)
(***************************************************************************)
\* n bytes of payload, no two of the first 255 equal, none of them 0
CodecPayload(n) == [i \in 1..n |-> ((i - 1) % 255) + 1]

\* the frames that are encoded: every FIN, RSV bit and opcode, MASK 0, a
\* payload of the 7-bit and of the 16-bit length form, PayloadLen as a
\* decoder leaves it (the payload's length) or as the sender leaves it (0)
CodecFrames ==
    {[FIN |-> fin, RSV1 |-> rsv[1], RSV2 |-> rsv[2], RSV3 |-> rsv[3],
      Opcode |-> opcode, MASK |-> 0, PayloadLen |-> pl,
      MaskingKey |-> <<0, 0, 0, 0>>, PayloadData |-> CodecPayload(n)] :
         fin \in {0, 1},
         rsv \in {<<0, 0, 0>>, <<1, 0, 0>>, <<0, 1, 0>>, <<0, 0, 1>>},
         opcode \in {OpcodeContinue, OpcodeText, OpcodeBinary, OpcodeClose,
                     OpcodePing, OpcodePong},
         n \in {0, 1, 5, 126}, pl \in {0, 1, 5, 126}}

\* the extended payload lengths of the headers that are decoded, after a
\* 7-bit length of p7
CodecExt(p7) ==
    IF p7 = 126
    THEN {<<0, 0>>, <<0, 3>>, <<0, 126>>, <<1, 0>>, <<255, 255>>}
    ELSE IF p7 = 127
    THEN {<<0, 0, 0, 0, 0, 0, 0, 0>>, <<0, 0, 0, 0, 0, 0, 0, 3>>,
          <<0, 0, 0, 0, 0, 1, 0, 0>>, <<0, 0, 0, 1, 0, 0, 0, 0>>,
          <<128, 0, 0, 0, 0, 0, 0, 0>>}
    ELSE {<<>>}

\* the bytes of a Text frame with FIN=1 whose header has MASK m, the 7-bit
\* length p7 and the extended length ext, followed by the masking key when
\* m = 1 and by the payload when it has at most 256 bytes
CodecBytes(m, p7, ext) ==
    LET n == IF p7 <= 125 THEN p7 ELSE BigEndian(ext)
    IN  <<129, (128 * m) + p7>> \o ext
            \o (IF m = 1 THEN PeerKey ELSE <<>>)
            \o (IF n <= 256 THEN CodecPayload(n) ELSE <<>>)

CodecInputs ==
    {[kind |-> "frame", f |-> f, mask |-> mask, byts |-> <<>>,
      max |-> 65535] :
         f \in {g \in CodecFrames :
                    g.PayloadLen \in {0, Len(g.PayloadData)}},
         mask \in BOOLEAN}
    \cup
    UNION {{[kind |-> "bytes", f |-> ZeroFrame, mask |-> FALSE,
             byts |-> CodecBytes(m, p7, ext), max |-> max] :
                ext \in CodecExt(p7), m \in {0, 1},
                max \in {0, 1, 3, 125, 126, 255, 65535, 65536}} :
           p7 \in {0, 1, 3, 125, 126, 127}}

CodecInit ==
    /\ ServerInit
    /\ maskKey \in MaskKeys
    /\ RouterIdle
    /\ CheckIdle
    /\ codecIn \in CodecInputs
    /\ codecOut = NoCodecOut
    /\ ReaderIdle
    /\ MsgIdle
    /\ UtilIdle

\* f.ToBytes(mask)
Encode ==
    /\ codecIn.kind = "frame"
    /\ codecOut.stage = "none"
    /\ LET tb == ToBytes(codecIn.f, codecIn.mask, maskKey)
       IN  codecOut' = [codecOut EXCEPT !.stage = "encoded",
                                        !.byts = tb.byts, !.f = tb.f]
    /\ UNCHANGED <<connVars, poolVars, inVars, outVars, recvMu, sendMu,
                   taskVars, maskKey, router, panicked, reg, hsReq, hsRet,
                   codecIn, reader, outMsg,
                   utilVars>>

\* frame.FromBufReader(r, maxPayloadLen) on a new frame, r a reader over the
\* bytes, which end after the frame
Decode ==
    /\ \/ codecIn.kind = "frame" /\ codecOut.stage = "encoded"
       \/ codecIn.kind = "bytes" /\ codecOut.stage = "none"
    /\ LET byts == IF codecIn.kind = "frame" THEN codecOut.byts
                   ELSE codecIn.byts
           s == [buf |-> <<>>, chunks |-> <<byts>>, eof |-> TRUE,
                 closed |-> FALSE]
       IN  codecOut' = [codecOut EXCEPT
                            !.stage = "decoded", !.byts = byts,
                            !.res = FromBufReader(ZeroFrame, s, codecIn.max)]
    /\ UNCHANGED <<connVars, poolVars, inVars, outVars, recvMu, sendMu,
                   taskVars, maskKey, router, panicked, reg, hsReq, hsRet,
                   codecIn, reader, outMsg,
                   utilVars>>

SpecCodec == CodecInit /\ [][Encode \/ Decode]_vars

\* the frame was encoded with ToBytes(mask) and the bytes were decoded
RoundTrip(mask) ==
    /\ codecIn.kind = "frame"
    /\ codecIn.mask = mask
    /\ codecOut.stage = "decoded"

\* C16: decoding the bytes of ToBytes(mask=true) succeeds and yields the
\* payload of the frame that was encoded (the original statement, which the
\* code violates).
MaskedRoundTrip ==
    RoundTrip(TRUE) =>
        /\ codecOut.res.err = ErrNone
        /\ codecOut.res.f.PayloadData = codecIn.f.PayloadData

\* C17: decoding the bytes of ToBytes(mask=false) succeeds and yields a frame
\* equal to the encoded one on every field (the original statement, which
\* the code violates).
UnmaskedRoundTrip ==
    RoundTrip(FALSE) =>
        /\ codecOut.res.err = ErrNone
        /\ codecOut.res.f = codecIn.f

\* the header that was decoded: the 7-bit length, the extended length and
\* the length they declare, MaxInt standing for 2^31 and more
HeaderP7 == codecOut.byts[2] % 128

HeaderExt ==
    SubSeq(codecOut.byts, 3,
           IF HeaderP7 = 126 THEN 4 ELSE IF HeaderP7 = 127 THEN 10 ELSE 2)

HeaderLength ==
    LET e == HeaderExt
    IN  IF HeaderP7 <= 125 THEN HeaderP7
        ELSE IF HeaderP7 = 126 THEN (256 * e[1]) + e[2]
        ELSE IF \E i \in 1..4 : e[i] # 0 THEN MaxInt
        ELSE IF e[5] >= 128 THEN MaxInt
        ELSE (16777216 * e[5]) + (65536 * e[6]) + (256 * e[7]) + e[8]

\* C18: a decode that gets as far as the payload length stores the 7-bit
\* field when it is at most 125, the next 2 bytes big-endian when it is 126
\* and the next 8 bytes big-endian when it is 127; when the length exceeds
\* maxPayloadLen the decode fails with "frame too large" having read the
\* header only, neither the masking key nor the payload; otherwise it does
\* not fail with "frame too large".
LengthDecoded ==
    codecOut.stage = "decoded" =>
        LET res == codecOut.res
            rest == res.s.buf \o Flatten(res.s.chunks)
        IN  res.err \notin {ErrDeformedFirstTwoBytes, ErrDeformedOpcode,
                             ErrDeformedExtendedPayloadLength}
                => /\ res.f.PayloadLen = HeaderLength
                   /\ HeaderLength > codecIn.max
                          => /\ res.err = ErrFrameTooLarge
                             /\ rest = Drop(codecOut.byts,
                                            2 + Len(HeaderExt))
                             /\ res.f.PayloadData = <<>>
                             /\ res.f.MaskingKey = <<0, 0, 0, 0>>
                   /\ HeaderLength <= codecIn.max
                          => res.err # ErrFrameTooLarge

\* a masked frame whose 8-byte length is 65536 was refused under a cap of
\* 65535
LengthDecodedWitness ==
    /\ codecOut.stage = "decoded"
    /\ codecIn.kind = "bytes"
    /\ codecIn.max = 65535
    /\ HeaderP7 = 127
    /\ HeaderLength = 65536
    /\ codecOut.byts[2] >= 128
    /\ codecOut.res.err = ErrFrameTooLarge

(***************************************************************************)
(* A handler that sends the content of a reader on an open connection.     *)
(***************************************************************************)
ReaderTask == <<1, 1>>

\* the readers of the handler: 0 to 4 bytes, and perFrameSize 1 to 3
Readers ==
    {[data |-> [i \in 1..n |-> 96 + i], size |-> k] :
         n \in 0..4, k \in 1..3}

ReaderInit ==
    /\ OpenConn({ReaderTask})
    /\ maskKey \in MaskKeys
    /\ RouterIdle
    /\ CheckIdle
    /\ CodecIdle
    /\ reader \in Readers
    /\ MsgIdle
    /\ UtilIdle

\* the handler sends the reader's bytes frame by frame inside a bracket, or
\* as a whole
ReaderNext ==
    \/ BeginSendFrame(ReaderTask)
    \/ SendFrameWithReader(ReaderTask, reader.data, OpcodeText, reader.size,
                           FALSE)
    \/ SendFrameWithReaderLoop(ReaderTask)
    \/ EndSendFrame(ReaderTask)
    \/ SendWholeWithReader(ReaderTask, reader.data, OpcodeBinary, FALSE)
    \/ SendWholeWithReaderLock(ReaderTask)
    \/ ConnWrite(ReaderTask)
    \/ ConnFlush(ReaderTask)

SpecReader == ReaderInit /\ [][ReaderNext]_vars

\* the call op of the handler has returned, and is its last call
Returned(op) ==
    /\ pc[ReaderTask] = "handler"
    /\ calls[ReaderTask] > 0
    /\ ret[ReaderTask].op = op

\* the frames the last call of the handler has written
LastFrames ==
    SelectSeq(Handed(1),
              LAMBDA e : /\ e.kind = "frame"
                         /\ e.by = ReaderTask
                         /\ e.m = calls[ReaderTask])

RECURSIVE Joined(_)
Joined(fs) ==
    IF fs = <<>> THEN <<>> ELSE Head(fs).f.PayloadData \o Joined(Tail(fs))

\* C19: SendFrameWithReader of L >= 1 bytes with perFrameSize k writes
\* ceil(L/k) frames, the first with the given opcode and the later ones with
\* Continuation, the last one and no other with FIN=1, each but the last with
\* k bytes of payload, the payloads together being the input.
ReaderChunks ==
    LET fs == LastFrames
        L == Len(reader.data)
        k == reader.size
    IN  (Returned("SendFrameWithReader") /\ L >= 1) =>
            /\ ret[ReaderTask].err = ErrNone
            /\ Len(fs) = (L + k - 1) \div k
            /\ \A i \in 1..Len(fs) :
                   /\ fs[i].f.Opcode =
                          (IF i = 1 THEN OpcodeText ELSE OpcodeContinue)
                   /\ fs[i].f.FIN = (IF i = Len(fs) THEN 1 ELSE 0)
                   /\ i < Len(fs) => Len(fs[i].f.PayloadData) = k
            /\ Joined(fs) = reader.data
            /\ Len(wire[1]) >= 1 + Len(fs)

\* 4 bytes were sent with perFrameSize 2, in two frames
ReaderChunksWitness ==
    /\ Returned("SendFrameWithReader")
    /\ Len(reader.data) = 4
    /\ reader.size = 2
    /\ Len(LastFrames) = 2
    /\ LastFrames[2].f.FIN = 1

\* C20: SendWholeWithReader writes one frame with FIN=1 and the given opcode
\* whose payload is the reader's bytes (the original statement, which the
\* code violates).
ReaderWhole ==
    Returned("SendWholeWithReader") =>
        /\ ret[ReaderTask].err = ErrNone
        /\ Len(LastFrames) = 1
        /\ LastFrames[1].f.FIN = 1
        /\ LastFrames[1].f.Opcode = OpcodeBinary
        /\ LastFrames[1].f.PayloadData = reader.data

(***************************************************************************)
(* A handler that sends whole messages on an open connection.              *)
(***************************************************************************)
WholeTask == <<1, 1>>

\* the Messages of the handler, sent with SendWhole or, their Data, with
\* SendWholeBytes
Messages ==
    {[api |-> "SendWhole", Opcode |-> opcode, Data |-> data, mask |-> mask] :
         opcode \in {OpcodeText, OpcodeBinary, OpcodePing},
         data \in {<<>>, <<97>>, <<97, 98, 99, 100, 101>>},
         mask \in BOOLEAN}
    \cup
    {[api |-> "SendWholeBytes", Opcode |-> 0, Data |-> data,
      mask |-> mask] :
         data \in {<<>>, <<97>>, <<97, 98, 99, 100, 101>>},
         mask \in BOOLEAN}

WholeInit ==
    /\ OpenConn({WholeTask})
    /\ maskKey \in MaskKeys
    /\ RouterIdle
    /\ CheckIdle
    /\ CodecIdle
    /\ ReaderIdle
    /\ outMsg \in Messages
    /\ UtilIdle

\* the handler sends its Message, while the peer may close
WholeNext ==
    \/ /\ outMsg.api = "SendWhole"
       /\ SendWhole(WholeTask,
                    [Opcode |-> outMsg.Opcode, Data |-> outMsg.Data],
                    outMsg.mask)
    \/ /\ outMsg.api = "SendWholeBytes"
       /\ SendWholeBytes(WholeTask, outMsg.Data, outMsg.mask)
    \/ SendWholeLock(WholeTask)
    \/ ConnWrite(WholeTask)
    \/ ConnFlush(WholeTask)
    \/ PeerClose(1)

SpecWhole == WholeInit /\ [][WholeNext]_vars

\* the last call of the handler has returned without an error
WholeSent ==
    /\ pc[WholeTask] = "handler"
    /\ calls[WholeTask] > 0
    /\ ret[WholeTask].op = "SendWhole"
    /\ ret[WholeTask].err = ErrNone

\* the frames of the last call of the handler that reached the peer
WholeFrames ==
    SelectSeq(wire[1],
              LAMBDA e : /\ e.kind = "frame"
                         /\ e.by = WholeTask
                         /\ e.m = calls[WholeTask])

\* the bytes of entry e of the wire
WireBytes(e) == ToBytes(e.f, e.mask, maskKey).byts

GuardPeerFrame(k) ==
    IF k = 1 THEN PeerFrame(0, OpcodeText, 1, PeerPayload(k, 1))
    ELSE PeerFrame(1, OpcodeContinue, 1, PeerPayload(k, 1))

GuardInit == OpenInit(SpecTasks)

\* each task reads whole messages, reads frames inside a bracket and sends
\* whole messages, while the peer sends its frames one segment each
GuardNext ==
    \/ PeerSend(1, GuardPeerFrame(Len(sent[1]) + 1),
                Len(PeerFrameBytes(GuardPeerFrame(Len(sent[1]) + 1))), FALSE)
    \/ \E t \in SpecTasks :
           \/ ReceiverNext(t, {MaxFrames * MaxPayload})
           \/ SendWhole(t, [Opcode |-> OpcodeText, Data |-> TaskData(t)],
                        FALSE)
           \/ SendWholeLock(t)
           \/ ConnWrite(t)
           \/ ConnFlush(t)

SpecGuard == GuardInit /\ [][GuardNext]_vars

\* task t is decoding, or about to decode, a frame
Decoding(t) == pc[t] \in {"rw_first", "rw_loop", "rw_next", "rf_read"}

\* task t is inside ReadWhole past its Lock, or inside a bracket
Guarding(t) == Decoding(t) \/ "recv" \in held[t]

\* task t has read a frame that is not the last of its message, and still
\* holds the guard
MidMessage(t) ==
    \/ pc[t] \in {"rw_loop", "rw_next"}
    \/ /\ "recv" \in held[t]
       /\ pc[t] = "handler"
       /\ ret[t].op = "ReadFrame"
       /\ ret[t].kind = "frame"
       /\ ret[t].f.FIN = 0

\* C22: at most one task of a connection is inside ReadWhole past its Lock
\* or inside a BeginReadFrame/EndReadFrame bracket; bytes are taken from the
\* stream only by that task, so that while a task is in the middle of a
\* message no other task reads a frame.
OneReader ==
    /\ [](\A t, u \in Tasks :
              (t # u /\ ConnOf(t) = ConnOf(u)) => ~(Guarding(t) /\ Guarding(u)))
    /\ [][\A t \in Tasks :
              LET c == ConnOf(t)
              IN  /\ (pc[t] # pc'[t] /\ Unread(c)' # Unread(c)
                          /\ Len(sent'[c]) = Len(sent[c]))
                         => (Guarding(t) /\ Decoding(t))
                  /\ MidMessage(t)
                         => \A u \in Tasks :
                                (u # t /\ ConnOf(u) = c)
                                    => /\ ~Decoding(u)'
                                       /\ ret'[u] # ret[u]
                                              => ret'[u].op \notin
                                                     {"ReadWhole",
                                                      "ReadFrame"}
         ]_vars

\* a task is in the middle of a message inside ReadWhole while the other
\* task waits for the guard
OneReaderWitness ==
    /\ pc[<<1, 1>>] = "rw_next"
    /\ pc[<<1, 2>>] = "rw_lock"
    /\ recvMu[1]
    /\ rd[<<1, 1>>].msgLen = 1

\* task t is inside ReadWhole, holding the receiver's guard
InReadWhole(t) == pc[t] \in {"rw_first", "rw_loop", "rw_next"}

\* task t is inside SendWhole, holding the sender's guard
InSendWhole(t) == pc[t] \in {"write", "flush"}

\* C23: the receiver's guard never holds up a send, nor the sender's guard
\* a receive: while a task is inside ReadWhole, holding the receiver's
\* guard, another task's SendWhole can take the sender's guard whenever
\* no sender holds it, and can write and flush; and while a task is inside
\* SendWhole, holding the sender's guard, another task's ReadWhole can take
\* the receiver's guard whenever no reader holds it, and can decode when the
\* peer's bytes are there.
GuardsIndependent ==
    \A t, u \in SpecTasks :
        /\ (t # u /\ InReadWhole(t))
               => /\ (pc[u] = "sw_lock" /\ ~sendMu[ConnOf(u)])
                         => (ENABLED SendWholeLock(u))
                  /\ (pc[u] = "write") => (ENABLED ConnWrite(u))
                  /\ (pc[u] = "flush") => (ENABLED ConnFlush(u))
        /\ (t # u /\ InSendWhole(t))
               => /\ (pc[u] = "rw_lock" /\ ~recvMu[ConnOf(u)])
                         => (ENABLED ReadWholeLock(u))
                  /\ (pc[u] = "rw_first" /\ Unread(1) # <<>>)
                         => (ENABLED ReadWholeFirst(u))
                  /\ (pc[u] = "rw_next" /\ Unread(1) # <<>>)
                         => (ENABLED ReadWholeNext(u))

\* a task waits for bytes inside ReadWhole while the other one, inside
\* SendWhole, has written its frame and is about to flush it
GuardsIndependentWitness ==
    /\ pc[<<1, 1>>] = "rw_first"
    /\ Unread(1) = <<>>
    /\ recvMu[1]
    /\ pc[<<1, 2>>] = "flush"
    /\ sendMu[1]

(***************************************************************************)
(* The IDs of the pool: every connection the server accepts is added to    *)
(* the pool, served, and deleted when its handshake fails or its handler   *)
(* sends a Close frame, in any interleaving.                               *)
(***************************************************************************)
\* the serving task of every connection
PoolTasks == {t \in Tasks : t[2] = 1}

PoolInit == Init

PoolNext ==
    \/ \E c \in Conns : Accept(c)
    \/ \E t \in PoolTasks :
           \/ \E errCode \in {0, StatusBadRequest} : DoHandshake(t, errCode)
           \/ FailHandshake(t)
           \/ SetOpen(t)
           \/ SendClose(t, CloseCodeNormalClosure, <<>>, TRUE, FALSE)
           \/ SendCloseClose(t)
           \/ ConnWrite(t)
           \/ ConnFlush(t)
           \/ HandlerReturn(t)

SpecPool == PoolInit /\ [][PoolNext]_vars

\* C24: every connection added to the pool gets an ID that is not zero, is
\* greater than every ID assigned before it and differs from the ID of every
\* other connection ever added (deleted ones included), and the ID of a
\* connection does not change once assigned.
PoolIDs ==
    /\ [](\A c \in made :
              /\ connID[c] # 0
              /\ \A d \in made : c # d => connID[c] # connID[d])
    /\ [][\A c \in Conns :
              /\ c \in made => connID'[c] = connID[c]
              /\ (c \notin made /\ c \in made')
                     => /\ connID'[c] # 0
                        /\ \A d \in made : connID'[c] > connID[d]
                        /\ connID'[c] \in DOMAIN poolP'
                        /\ poolP'[connID'[c]] = c
         ]_vars

\* the second connection was added after the first was deleted
PoolIDsWitness ==
    /\ made = Conns
    /\ \E c \in Conns : rwcClosed[c] /\ connID[c] \notin DOMAIN poolP
                            /\ \E d \in Conns : connID[d] > connID[c]

(***************************************************************************)
(* The return of the handler.                                              *)
(***************************************************************************)
\* the handler of task t returns in this step
HandlerReturns(t) == pc[t] = "handler" /\ pc'[t] = "done"

\* connection c has its entry in the pool
InPool(c) == connID[c] \in DOMAIN poolP /\ poolP[connID[c]] = c

\* C25: the return of the open handler changes nothing on the connection:
\* its state, its stream and the pool are as they were, so that a handler
\* that returns without SendClose (the state is still Open) leaves the
\* connection Open, its stream not closed and its entry in the pool.
HandlerReturnKeeps ==
    /\ [](\A c \in made : state[c] = StateOpen => (~rwcClosed[c] /\ InPool(c)))
    /\ [][\A t \in Tasks :
              HandlerReturns(t)
                  => LET c == ConnOf(t)
                     IN  /\ state'[c] = state[c]
                         /\ rwcClosed'[c] = rwcClosed[c]
                         /\ poolP' = poolP
                         /\ poolCount' = poolCount
                         /\ state[c] = StateOpen
                                => /\ state'[c] = StateOpen
                                   /\ ~rwcClosed'[c]
                                   /\ InPool(c)'
         ]_vars

\* the handler of connection 1 has returned, and the connection is open
HandlerReturnKeepsWitness ==
    /\ pc[<<1, 1>>] = "done"
    /\ state[1] = StateOpen
    /\ ~rwcClosed[1]
    /\ InPool(1)

(***************************************************************************)
(* The reserved bits of a decoded frame.                                   *)
(***************************************************************************)
\* C26: a frame that FromBufReader returns without an error has RSV1 = RSV2
\* = RSV3 = 0: no frame whose first byte has a reserved bit set is accepted
\* (the original statement, which the code violates).
NoReservedBits ==
    (codecOut.stage = "decoded" /\ codecOut.res.err = ErrNone)
        => /\ codecOut.res.f.RSV1 = 0
           /\ codecOut.res.f.RSV2 = 0
           /\ codecOut.res.f.RSV3 = 0

(***************************************************************************)
(* MakeCloseFrame, called with every code of the table, codes the table    *)
(* does not hold, an empty and a non-empty reason.                         *)
(***************************************************************************)
\* the codes of closeCodeText
CloseCodes == {1000, 1001, 1002, 1003, 1005, 1006, 1007, 1008, 1009, 1010,
               1011, 1015}

\* the arguments of the calls: reason "", "x" and "bye"
CloseInputs ==
    [fn : {"MakeCloseFrame"},
     code : CloseCodes \cup {0, 255, 256, 999, 1004, 1012, 3000, 4000, 65535},
     reason : {<<>>, <<120>>, <<98, 121, 101>>},
     useCodeText : BOOLEAN]

CloseInit ==
    /\ ServerInit
    /\ maskKey \in MaskKeys
    /\ RouterIdle
    /\ CheckIdle
    /\ CodecIdle
    /\ ReaderIdle
    /\ MsgIdle
    /\ utilIn \in CloseInputs
    /\ utilOut = NoUtilOut

\* f := MakeCloseFrame(code, reason, useCodeText)
CallMakeCloseFrame ==
    /\ utilIn.fn = "MakeCloseFrame"
    /\ ~utilOut.done
    /\ utilOut' = [done |-> TRUE,
                   f |-> MakeCloseFrame(utilIn.code, utilIn.reason,
                                        utilIn.useCodeText)]
    /\ UNCHANGED <<connVars, poolVars, inVars, outVars, recvMu, sendMu,
                   taskVars, maskKey, router, panicked, reg, hsReq, hsRet,
                   codecIn, codecOut, reader, outMsg, utilIn>>

SpecClose == CloseInit /\ [][CallMakeCloseFrame]_vars

\* the text of the code was taken for the reason
Substituted == utilIn.reason = <<>> /\ utilIn.useCodeText

\* C29: MakeCloseFrame(code, reason, useCodeText) returns a frame with FIN=1,
\* opcode Close and a payload of the two bytes of code, big-endian, followed
\* by the reason; the reason is the text of the code exactly when reason is
\* empty and useCodeText is true: "Going Away" for 1001, nothing for a code
\* that has no text.
CloseFrameBuilt ==
    (utilIn.fn = "MakeCloseFrame" /\ utilOut.done) =>
        LET f == utilOut.f
            p == f.PayloadData
            tail == SubSeq(p, 3, Len(p))
        IN  /\ f.FIN = 1
            /\ f.Opcode = OpcodeClose
            /\ Len(p) >= 2
            /\ (256 * p[1]) + p[2] = utilIn.code
            /\ ~Substituted => tail = utilIn.reason
            /\ Substituted
                   => /\ tail = CloseCodeText(utilIn.code)
                      /\ utilIn.code = 1001
                             => tail = <<71, 111, 105, 110, 103, 32, 65, 119,
                                         97, 121>>
                      /\ utilIn.code \notin CloseCodes => tail = <<>>
                      /\ utilIn.code \in CloseCodes => tail # <<>>

\* the Close frame of 1001 was built with the text of the code
CloseFrameBuiltWitness ==
    /\ utilIn.fn = "MakeCloseFrame"
    /\ utilOut.done
    /\ utilIn.code = 1001
    /\ Substituted
    /\ utilOut.f.PayloadData = <<3, 233>> \o CloseCodeText(1001)

(***************************************************************************)
(* IsIntactUtf8, called with every string of at most MaxBytes bytes over   *)
(* a set of bytes that has an ASCII byte, continuation bytes, lead bytes   *)
(* of 2, 3 and 4 byte forms and a byte that leads no form.                 *)
(***************************************************************************)
\* the length of the byte strings
MaxBytes == 4

\* 'A', 10000000, 10010000, 10100000, 10111111, 11000000, 11000010,
\* 11100000, 11101101, 11110000, 11110100, 11111000
Utf8Bytes == {65, 128, 144, 160, 191, 192, 194, 224, 237, 240, 244, 248}

RECURSIVE IsIntactUtf8From(_, _)
\* the loop of IsIntactUtf8 from index i (counted from 0) to its return;
\* the operands of each | have no bit in common, so that | is a sum
IsIntactUtf8From(u8, i) ==
    LET u8l == Len(u8)
        b1 == u8[i + 1]
    IN  IF i = u8l THEN i = u8l
        ELSE IF b1 <= 127 THEN IsIntactUtf8From(u8, i + 1)
        ELSE IF b1 \div 32 = 6
        THEN IF /\ u8l - i >= 2
                /\ u8[i + 2] \div 64 = 2
                /\ (u8[i + 1] > 192 \/ u8[i + 2] > 128)
             THEN IsIntactUtf8From(u8, i + 2)
             ELSE FALSE
        ELSE IF b1 \div 16 = 14
        THEN IF u8l - i >= 3
             THEN LET tu == ((b1 % 16) * 4096) + ((u8[i + 2] % 64) * 64)
                                + (u8[i + 3] % 64)
                  IN  IF tu >= 2048 /\ tu <= 65535
                             /\ ~(tu >= 55296 /\ tu <= 57343)
                      THEN IsIntactUtf8From(u8, i + 3)
                      ELSE FALSE
             ELSE FALSE
        ELSE IF b1 \div 8 = 30
        THEN IF /\ u8l - i >= 4
                /\ u8[i + 1] % 8 <= 4
                /\ u8[i + 2] \div 64 = 2
                /\ u8[i + 2] % 64 <= 15
                /\ u8[i + 3] \div 64 = 2
                /\ u8[i + 4] \div 64 = 2
             THEN IsIntactUtf8From(u8, i + 4)
             ELSE FALSE
        ELSE FALSE

\* IsIntactUtf8(u8)
IsIntactUtf8(u8) == IsIntactUtf8From(u8, 0)

Utf8Inputs ==
    [fn : {"IsIntactUtf8"},
     u8 : UNION {[1..n -> Utf8Bytes] : n \in 0..MaxBytes}]

Utf8Init ==
    /\ ServerInit
    /\ maskKey \in MaskKeys
    /\ RouterIdle
    /\ CheckIdle
    /\ CodecIdle
    /\ ReaderIdle
    /\ MsgIdle
    /\ utilIn \in Utf8Inputs
    /\ utilOut = NoUtilOut

\* ok := IsIntactUtf8(u8)
CallIsIntactUtf8 ==
    /\ utilIn.fn = "IsIntactUtf8"
    /\ ~utilOut.done
    /\ utilOut' = [done |-> TRUE, ok |-> IsIntactUtf8(utilIn.u8)]
    /\ UNCHANGED <<connVars, poolVars, inVars, outVars, recvMu, sendMu,
                   taskVars, maskKey, router, panicked, reg, hsReq, hsRet,
                   codecIn, codecOut, reader, outMsg, utilIn>>

SpecUtf8 == Utf8Init /\ [][CallIsIntactUtf8]_vars

\* byte b has the form 10xxxxxx
IsContinuation(b) == b \div 64 = 2

\* the number of bytes of the encoding that b begins with, 0 when it begins
\* with none: 0xxxxxxx; 110xxxxx 10xxxxxx other than C0 80; 1110xxxx 10xxxxxx
\* 10xxxxxx of a scalar in [0x0800, 0xFFFF] outside [0xD800, 0xDFFF];
\* 11110xxx with a payload of at most 4 and three bytes 10xxxxxx
EncodingAt(b) ==
    IF b = <<>> THEN 0
    ELSE IF b[1] <= 127 THEN 1
    ELSE IF b[1] \div 32 = 6
    THEN IF Len(b) >= 2 /\ IsContinuation(b[2]) /\ <<b[1], b[2]>> # <<192, 128>>
         THEN 2 ELSE 0
    ELSE IF b[1] \div 16 = 14
    THEN IF Len(b) >= 3 /\ IsContinuation(b[2]) /\ IsContinuation(b[3])
         THEN LET scalar == ((b[1] % 16) * 4096) + ((b[2] % 64) * 64)
                                + (b[3] % 64)
              IN  IF scalar >= 2048 /\ scalar <= 65535
                         /\ ~(scalar >= 55296 /\ scalar <= 57343)
                  THEN 3 ELSE 0
         ELSE 0
    ELSE IF b[1] \div 8 = 30
    THEN IF Len(b) >= 4 /\ b[1] % 8 <= 4 /\ IsContinuation(b[2])
                /\ IsContinuation(b[3]) /\ IsContinuation(b[4])
         THEN 4 ELSE 0
    ELSE 0

RECURSIVE Allowed(_)
\* b is a concatenation of allowed encodings
Allowed(b) ==
    \/ b = <<>>
    \/ EncodingAt(b) > 0 /\ Allowed(SubSeq(b, EncodingAt(b) + 1, Len(b)))

\* C27: IsIntactUtf8(b) is true if and only if b is a concatenation of the
\* allowed encodings of 1, 2, 3 and 4 bytes; a truncated encoding or a
\* continuation byte that is not 10xxxxxx makes it false (the original
\* statement, which the code violates).
IntactIffAllowed ==
    (utilIn.fn = "IsIntactUtf8" /\ utilOut.done)
        => (utilOut.ok <=> Allowed(utilIn.u8))

(***************************************************************************)
(* Unicode2utf8 and Utf82unicode, called one after the other with the      *)
(* scalars around the ends of the ranges of each form, the scalars of      *)
(* TestUnicode2utf8 and the powers of two.                                 *)
(***************************************************************************)
ErrDeformedUnicode == "deformed unicode"

ErrEmptyUtf8 == "empty utf8"

ErrDeformedUtf8 == "deformed utf8"

\* a | b on uint32
Or32(a, b) == OrBits(a, b, 32)

\* Unicode2utf8(u): u8 and err
Unicode2utf8(u) ==
    IF u <= 127 THEN [u8 |-> <<Byte(u)>>, err |-> ErrNone]
    ELSE IF u >= 128 /\ u <= 2047
    THEN [u8 |-> <<Byte(Or32(u \div 64, 192)), Byte(Or32(u % 64, 128))>>,
          err |-> ErrNone]
    ELSE IF u >= 2048 /\ u <= 65535
    THEN [u8 |-> <<Byte(Or32(u \div 4096, 224)),
                   Byte(Or32((u \div 64) % 64, 128)),
                   Byte(Or32(u % 64, 128))>>,
          err |-> ErrNone]
    ELSE IF u >= 65536 /\ u <= 1114111
    THEN [u8 |-> <<Byte(Or32(u \div 262144, 240)),
                   Byte(Or32((u \div 4096) % 64, 128)),
                   Byte(Or32((u \div 64) % 64, 128)),
                   Byte(Or32(u % 64, 128))>>,
          err |-> ErrNone]
    ELSE [u8 |-> <<>>, err |-> ErrDeformedUnicode]

\* a Utf82unicode that keeps three bits of the lead byte of the 3-byte form
Utf82unicodeThreeBits(u8) ==
    LET u8l == Len(u8)
    IN  IF u8l = 0 THEN [u |-> 0, err |-> ErrEmptyUtf8]
        ELSE LET b1 == u8[1]
             IN  IF b1 <= 127 THEN [u |-> b1, err |-> ErrNone]
                 ELSE IF b1 \div 32 = 6 /\ u8l = 2
                 THEN [u |-> Or32((b1 % 32) * 64, u8[2] % 64),
                       err |-> ErrNone]
                 ELSE IF b1 \div 16 = 14 /\ u8l = 3
                 THEN [u |-> Or32(Or32((b1 % 8) * 4096, (u8[2] % 64) * 64),
                                  u8[3] % 64),
                       err |-> ErrNone]
                 ELSE IF b1 \div 8 = 30 /\ u8l = 4
                 THEN [u |-> Or32(Or32(Or32((b1 % 8) * 262144,
                                            (u8[2] % 64) * 4096),
                                       (u8[3] % 64) * 64),
                                  u8[4] % 64),
                       err |-> ErrNone]
                 ELSE [u |-> 0, err |-> ErrDeformedUtf8]

\* Utf82unicode(u8): u and err
Utf82unicode(u8) ==
    LET u8l == Len(u8)
    IN  IF u8l = 0 THEN [u |-> 0, err |-> ErrEmptyUtf8]
        ELSE LET b1 == u8[1]
             IN  IF b1 <= 127 THEN [u |-> b1, err |-> ErrNone]
                 ELSE IF b1 \div 32 = 6 /\ u8l = 2
                 THEN [u |-> Or32((b1 % 32) * 64, u8[2] % 64),
                       err |-> ErrNone]
                 ELSE IF b1 \div 16 = 14 /\ u8l = 3
                 THEN [u |-> Or32(Or32((b1 % 16) * 4096, (u8[2] % 64) * 64),
                                  u8[3] % 64),
                       err |-> ErrNone]
                 ELSE IF b1 \div 8 = 30 /\ u8l = 4
                 THEN [u |-> Or32(Or32(Or32((b1 % 8) * 262144,
                                            (u8[2] % 64) * 4096),
                                       (u8[3] % 64) * 64),
                                  u8[4] % 64),
                       err |-> ErrNone]
                 ELSE [u |-> 0, err |-> ErrDeformedUtf8]

\* the scalars that are converted: the ends of the ranges of the four forms
\* and of the surrogates, 0x75, 0xA9, 0x6C49 and 0x1F604, the powers of two
Scalars ==
    (0..15) \cup (112..143) \cup {117, 169} \cup (2032..2063)
        \cup {27721} \cup (55280..55311) \cup (57328..57359)
        \cup (65520..65551) \cup {128516} \cup (1114096..1114127)
        \cup {2 ^ k : k \in 0..22}

ScalarInputs == [fn : {"Unicode2utf8"}, u : Scalars]

ScalarInit ==
    /\ ServerInit
    /\ maskKey \in MaskKeys
    /\ RouterIdle
    /\ CheckIdle
    /\ CodecIdle
    /\ ReaderIdle
    /\ MsgIdle
    /\ utilIn \in ScalarInputs
    /\ utilOut = NoUtilOut

\* u8, err := Unicode2utf8(u)
CallUnicode2utf8 ==
    /\ utilIn.fn = "Unicode2utf8"
    /\ ~utilOut.done
    /\ LET r == Unicode2utf8(utilIn.u)
       IN  utilOut' = [done |-> TRUE, stage |-> "encoded", u8 |-> r.u8,
                       err |-> r.err, u |-> 0, uerr |-> ErrNone]
    /\ UNCHANGED <<connVars, poolVars, inVars, outVars, recvMu, sendMu,
                   taskVars, maskKey, router, panicked, reg, hsReq, hsRet,
                   codecIn, codecOut, reader, outMsg, utilIn>>

\* u, err := Utf82unicode(u8), u8 what Unicode2utf8 returned
CallUtf82unicode ==
    /\ utilIn.fn = "Unicode2utf8"
    /\ utilOut.done
    /\ utilOut.stage = "encoded"
    /\ LET r == Utf82unicode(utilOut.u8)
       IN  utilOut' = [utilOut EXCEPT !.stage = "decoded", !.u = r.u,
                                      !.uerr = r.err]
    /\ UNCHANGED <<connVars, poolVars, inVars, outVars, recvMu, sendMu,
                   taskVars, maskKey, router, panicked, reg, hsReq, hsRet,
                   codecIn, codecOut, reader, outMsg, utilIn>>

SpecScalar == ScalarInit /\ [][CallUnicode2utf8 \/ CallUtf82unicode]_vars

\* s is in [0, 0x10FFFF] and outside [0xD800, 0xDFFF]
IsScalar(s) == s >= 0 /\ s <= 1114111 /\ ~(s >= 55296 /\ s <= 57343)

\* the number of bytes of the encoding of s
EncodedLen(s) ==
    IF s <= 127 THEN 1 ELSE IF s <= 2047 THEN 2 ELSE IF s <= 65535 THEN 3 ELSE 4

\* C28: for every scalar s in [0, 0x10FFFF] outside [0xD800, 0xDFFF],
\* Unicode2utf8(s) succeeds with 1, 2, 3 or 4 bytes for s <= 0x7F, <= 0x7FF,
\* <= 0xFFFF and <= 0x10FFFF, and Utf82unicode of these bytes returns s.
ScalarRoundTrip ==
    (utilIn.fn = "Unicode2utf8" /\ utilOut.done /\ IsScalar(utilIn.u))
        => /\ utilOut.err = ErrNone
           /\ Len(utilOut.u8) = EncodedLen(utilIn.u)
           /\ utilOut.stage = "decoded"
                  => /\ utilOut.uerr = ErrNone
                     /\ utilOut.u = utilIn.u

\* U+1F604 was encoded in F0 9F 98 84 and decoded
ScalarRoundTripWitness ==
    /\ utilIn.fn = "Unicode2utf8"
    /\ utilOut.done
    /\ utilOut.stage = "decoded"
    /\ utilIn.u = 128516
    /\ utilOut.u8 = <<240, 159, 152, 132>>
    /\ utilOut.u = 128516

(***************************************************************************)
(* MakeAcceptKey and the response of the handshake.  SHA-1 is computed on  *)
(* uint32 words held as pairs <<high 16 bits, low 16 bits>>.               *)
(***************************************************************************)
keySuffixGUID == "258EAFA5-E914-47DA-95CA-C5AB0DC85B11"

\* the place of character ch in string str, 0 when it has none
IndexOf(str, ch) ==
    IF \E j \in 1..Len(str) : SubSeq(str, j, j) = ch
    THEN CHOOSE j \in 1..Len(str) : SubSeq(str, j, j) = ch
    ELSE 0

\* the byte of a character of a key or of the GUID
CharByte(ch) ==
    IF IndexOf("0123456789", ch) > 0 THEN 47 + IndexOf("0123456789", ch)
    ELSE IF IndexOf("ABCDEFGHIJKLMNOPQRSTUVWXYZ", ch) > 0
    THEN 64 + IndexOf("ABCDEFGHIJKLMNOPQRSTUVWXYZ", ch)
    ELSE IF IndexOf("abcdefghijklmnopqrstuvwxyz", ch) > 0
    THEN 96 + IndexOf("abcdefghijklmnopqrstuvwxyz", ch)
    ELSE CASE ch = "+" -> 43
           [] ch = "-" -> 45
           [] ch = "/" -> 47
           [] ch = "=" -> 61

\* []byte(str)
Bytes(str) == [i \in 1..Len(str) |-> CharByte(SubSeq(str, i, i))]

RECURSIVE AndBits(_, _, _)
AndBits(a, b, n) ==
    IF n = 0 THEN 0
    ELSE ((a % 2) * (b % 2)) + (2 * AndBits(a \div 2, b \div 2, n - 1))

\* x ^ y, x & y, x | y, ^x and x + y on uint32
XorW(x, y) == <<XorBits(x[1], y[1], 16), XorBits(x[2], y[2], 16)>>

AndW(x, y) == <<AndBits(x[1], y[1], 16), AndBits(x[2], y[2], 16)>>

OrW(x, y) == <<OrBits(x[1], y[1], 16), OrBits(x[2], y[2], 16)>>

NotW(x) == <<65535 - x[1], 65535 - x[2]>>

AddW(x, y) ==
    LET lo == x[2] + y[2]
    IN  <<(x[1] + y[1] + (lo \div 65536)) % 65536, lo % 65536>>

\* bits.RotateLeft32(x, n), 0 < n < 16
RotateLeft(x, n) ==
    <<((x[1] * Pow2(n)) % 65536) + (x[2] \div Pow2(16 - n)),
      ((x[2] * Pow2(n)) % 65536) + (x[1] \div Pow2(16 - n))>>

\* bits.RotateLeft32(x, 30)
RotateLeft30(x) == RotateLeft(<<x[2], x[1]>>, 14)

\* the message, the byte 0x80, zeros up to 56 modulo 64 and the length in
\* bits on 8 bytes (a message of fewer than 2^28 bytes)
Padded(m) ==
    LET bits == Len(m) * 8
    IN  m \o <<128>> \o [i \in 1..((119 - Len(m)) % 64) |-> 0]
          \o <<0, 0, 0, 0>>
          \o <<(bits \div 16777216) % 256, (bits \div 65536) % 256,
               (bits \div 256) % 256, bits % 256>>

\* the 16 words of block k of p
BlockWords(p, k) ==
    [t \in 1..16 |->
         LET o == (64 * k) + (4 * (t - 1))
         IN  <<(256 * p[o + 1]) + p[o + 2], (256 * p[o + 3]) + p[o + 4]>>]

RECURSIVE Schedule(_)
\* the 80 words of the rounds of a block
Schedule(w) ==
    IF Len(w) = 80 THEN w
    ELSE LET t == Len(w) + 1
         IN  Schedule(Append(w, RotateLeft(XorW(XorW(w[t - 3], w[t - 8]),
                                                XorW(w[t - 14], w[t - 16])),
                                           1)))

\* round t of a block, on the five words h, with word w of the schedule
Round(h, w, t) ==
    LET a == h[1]
        b == h[2]
        c == h[3]
        d == h[4]
        e == h[5]
        f == IF t < 20 THEN OrW(AndW(b, c), AndW(NotW(b), d))
             ELSE IF t < 40 THEN XorW(XorW(b, c), d)
             ELSE IF t < 60
             THEN OrW(OrW(AndW(b, c), AndW(b, d)), AndW(c, d))
             ELSE XorW(XorW(b, c), d)
        k == IF t < 20 THEN <<23170, 31129>>
             ELSE IF t < 40 THEN <<28377, 60321>>
             ELSE IF t < 60 THEN <<36635, 48348>>
             ELSE <<51810, 49622>>
    IN  <<AddW(AddW(AddW(AddW(RotateLeft(a, 5), f), e), k), w), a,
          RotateLeft30(b), c, d>>

RECURSIVE Rounds(_, _, _)
\* rounds t to 79 (the test of Len(h) has h computed round by round)
Rounds(h, w, t) ==
    IF t = 80 \/ Len(h) # 5 THEN h
    ELSE Rounds(Round(h, w[t + 1], t), w, t + 1)

RECURSIVE Blocks(_, _, _)
\* the digest h after the blocks k, k + 1, ... of p
Blocks(h, p, k) ==
    IF 64 * k = Len(p) \/ Len(h) # 5 THEN h
    ELSE LET r == Rounds(h, Schedule(BlockWords(p, k)), 0)
         IN  Blocks([i \in 1..5 |-> AddW(h[i], r[i])], p, k + 1)

\* h := sha1.New(); h.Write(m); h.Sum(nil): the 20 bytes of the digest
Sha1(m) ==
    LET h == Blocks(<<<<26437, 8961>>, <<61389, 43913>>, <<39098, 56574>>,
                      <<4146, 21622>>, <<50130, 57840>>>>, Padded(m), 0)
    IN  [i \in 1..20 |->
             LET half == h[((i - 1) \div 4) + 1][(((i - 1) % 4) \div 2) + 1]
             IN  IF i % 2 = 1 THEN half \div 256 ELSE half % 256]

\* the alphabet of base64.StdEncoding
encodeStd == "ABCDEFGHIJKLMNOPQRSTUVWXYZabcdefghijklmnopqrstuvwxyz0123456789+/"

\* the character of the 6 bits v
EncodeChar(v) == SubSeq(encodeStd, v + 1, v + 1)

RECURSIVE EncodeToString(_)
\* base64.StdEncoding.EncodeToString(b)
EncodeToString(b) ==
    IF Len(b) = 0 THEN ""
    ELSE IF Len(b) = 1
    THEN EncodeChar(b[1] \div 4) \o EncodeChar((b[1] % 4) * 16) \o "=="
    ELSE IF Len(b) = 2
    THEN EncodeChar(b[1] \div 4)
            \o EncodeChar(((b[1] % 4) * 16) + (b[2] \div 16))
            \o EncodeChar((b[2] % 16) * 4) \o "="
    ELSE EncodeChar(b[1] \div 4)
            \o EncodeChar(((b[1] % 4) * 16) + (b[2] \div 16))
            \o EncodeChar(((b[2] % 16) * 4) + (b[3] \div 64))
            \o EncodeChar(b[3] % 64)
            \o EncodeToString(SubSeq(b, 4, Len(b)))

\* a MakeAcceptKey that leaves the GUID out
MakeAcceptKeyNoSuffix(reqKey) == EncodeToString(Sha1(Bytes(reqKey)))

\* MakeAcceptKey(reqKey)
MakeAcceptKey(reqKey) == EncodeToString(Sha1(Bytes(reqKey \o keySuffixGUID)))

\* DefaultServerHandshakeFunc(hsReq, conn): errCode and what it writes to
\* conn.Buf
DefaultServerHandshakeFunc(req, r) ==
    LET errCode == DefaultServerHandshakeCheck(req, r)
    IN  IF errCode # 0 THEN [errCode |-> errCode, buf |-> <<>>]
        ELSE LET key == GetOne(req.Header, "Sec-WebSocket-Key")
                 respKey == MakeAcceptKey(key)
             IN  [errCode |-> 0,
                  buf |-> <<"HTTP/1.1 101 Switching Protocols\r\n",
                            "Upgrade: websocket\r\n",
                            "Connection: Upgrade\r\n",
                            "Sec-WebSocket-Accept: " \o respKey \o "\r\n",
                            "\r\n">>]

\* the keys of the requests: the one of TestMakeAcceptKey and two of 24
\* characters
AcceptKeys == {"M/A=", "dGhlIHNhbXBsZSBub25jZQ==", "x3JJHMbDL1EzLkh9GBhXDw=="}

AcceptVals(k) ==
    CASE k = "Host" -> {<<"example.com">>}
      [] k = "Connection" -> {<<"Upgrade">>, <<"keep-alive">>}
      [] k = "Upgrade" -> {<<"websocket">>}
      [] k = "Sec-WebSocket-Version" -> {<<"13">>, <<"8">>}
      [] k = "Sec-WebSocket-Key" ->
             {<<>>} \cup {<<a>> : a \in AcceptKeys}
                 \cup {<<a, b>> : a, b \in AcceptKeys}

AcceptRequests ==
    {[ProtoVer |-> v, Header |-> HeaderOf(g), RequestURL |-> [Path |-> p]] :
         v \in {"1.1", "1.0"},
         g \in {f \in [CheckKeys -> UNION {AcceptVals(k) : k \in CheckKeys}] :
                    \A k \in CheckKeys : f[k] \in AcceptVals(k)},
         p \in {"/", "/chat"}}

\* a test that calls MakeAcceptKey, or a server with a handler for "/" and a
\* parsed request
AcceptInit ==
    /\ ServerInit
    /\ maskKey \in MaskKeys
    /\ router = [p \in {"/"} |-> "echo"]
    /\ panicked = FALSE
    /\ reg = [pattern |-> "/", fn |-> "echo"]
    /\ hsRet = NoCheck
    /\ CodecIdle
    /\ ReaderIdle
    /\ MsgIdle
    /\ utilOut = [done |-> FALSE, vals |-> <<>>]
    /\ \/ hsReq = NoReq /\ utilIn \in [fn : {"MakeAcceptKey"}, key : AcceptKeys]
       \/ hsReq \in AcceptRequests /\ utilIn = NoUtilIn

\* MakeAcceptKey(key) is called, twice at most
CallMakeAcceptKey ==
    /\ utilIn.fn = "MakeAcceptKey"
    /\ Len(utilOut.vals) < 2
    /\ utilOut' = [done |-> TRUE,
                   vals |-> Append(utilOut.vals, MakeAcceptKey(utilIn.key))]
    /\ UNCHANGED <<connVars, poolVars, inVars, outVars, recvMu, sendMu,
                   taskVars, maskKey, router, panicked, reg, hsReq, hsRet,
                   codecIn, codecOut, reader, outMsg, utilIn>>

\* DefaultServerHandshakeFunc(hsReq, conn) returns
HandshakeFunc ==
    /\ hsReq # NoReq
    /\ ~hsRet.done
    /\ LET r == DefaultServerHandshakeFunc(hsReq, router)
       IN  hsRet' = [done |-> TRUE, errCode |-> r.errCode, buf |-> r.buf]
    /\ UNCHANGED <<connVars, poolVars, inVars, outVars, recvMu, sendMu,
                   taskVars, maskKey, router, panicked, reg, hsReq,
                   codecIn, codecOut, reader, outMsg, utilVars>>

SpecAccept == AcceptInit /\ [][CallMakeAcceptKey \/ HandshakeFunc]_vars

\* base64(SHA1(k + GUID)) of the three keys
AcceptOf(k) ==
    CASE k = "M/A=" -> "5oBJ6efz0YUYE2VFXcCfYKTBqYY="
      [] k = "dGhlIHNhbXBsZSBub25jZQ==" -> "s3pPLMBiTxaQ9kYGzzhZRbK+xOo="
      [] k = "x3JJHMbDL1EzLkh9GBhXDw==" -> "HSmrc0sMlYUkAGmm5OPpG2HaGWk="

\* C30: MakeAcceptKey(k) is base64(SHA1(k + GUID)) and depends on k alone:
\* two calls with one key return one value, MakeAcceptKey("M/A=") is
\* "5oBJ6efz0YUYE2VFXcCfYKTBqYY=", and the 101 response has MakeAcceptKey of
\* the first value of the request's Sec-WebSocket-Key in its
\* Sec-WebSocket-Accept line.
AcceptKeyCarried ==
    /\ utilIn.fn = "MakeAcceptKey"
           => \A i \in 1..Len(utilOut.vals) :
                  /\ utilOut.vals[i] = AcceptOf(utilIn.key)
                  /\ utilOut.vals[i] = utilOut.vals[1]
    /\ (hsRet.done /\ hsRet.errCode = 0)
           => LET first == hsReq.Header["Sec-WebSocket-Key"][1]
              IN  /\ Len(hsRet.buf) = 5
                  /\ hsRet.buf[1] = "HTTP/1.1 101 Switching Protocols\r\n"
                  /\ hsRet.buf[4] = "Sec-WebSocket-Accept: " \o AcceptOf(first)
                                        \o "\r\n"
                  /\ hsRet.buf[4] = "Sec-WebSocket-Accept: "
                                        \o MakeAcceptKey(first) \o "\r\n"

\* a request with two values of Sec-WebSocket-Key, "M/A=" the first, was
\* answered with 101
AcceptKeyCarriedWitness ==
    /\ hsRet.done
    /\ hsRet.errCode = 0
    /\ hsReq.Header["Sec-WebSocket-Key"] = <<"M/A=", "dGhlIHNhbXBsZSBub25jZQ==">>
    /\ hsRet.buf[4] = "Sec-WebSocket-Accept: 5oBJ6efz0YUYE2VFXcCfYKTBqYY=\r\n"

(***************************************************************************)
(* Frames of length 0.                                                     *)
(***************************************************************************)
\* C31: a frame whose header declares a payload of 0 bytes, in the 7-bit
\* field, in the 16 bits of the 126 form or in the 64 bits of the 127 form,
\* decodes without an error, with an empty payload, and leaves in the stream
\* every byte that follows its header and masking key (the original
\* statement, which the code violates).
ZeroLengthDecodes ==
    (codecOut.stage = "decoded" /\ codecIn.kind = "bytes" /\ HeaderLength = 0)
        => LET res == codecOut.res
               rest == res.s.buf \o Flatten(res.s.chunks)
               key == IF codecOut.byts[2] >= 128 THEN 4 ELSE 0
           IN  /\ res.err = ErrNone
               /\ ~res.blocked
               /\ res.f.PayloadData = <<>>
               /\ rest = Drop(codecOut.byts, 2 + Len(HeaderExt) + key)

(***************************************************************************)
(* The parse of the handshake request: HandshakeRequest.ReadFrom on the    *)
(* bytes of one read, a request line and up to two header lines, each      *)
(* ended by "\n" or "\r\n", and an empty line.  A slice expression whose    *)
(* bounds are out of range panics, and nothing recovers the panic.         *)
(***************************************************************************)
defaultMaxHandshakeBytes == 1048576

LF == <<10>>

CRLF == <<13, 10>>

\* bytes.IndexByte(bs, c), counted from 0, -1 when bs has no c
IndexByte(bs, c) ==
    IF \E j \in 1..Len(bs) : bs[j] = c
    THEN (CHOOSE j \in 1..Len(bs) :
              bs[j] = c /\ \A k \in 1..(j - 1) : bs[k] # c) - 1
    ELSE -1

\* bs[lo:hi] does not panic
InRange(bs, lo, hi) == 0 <= lo /\ lo <= hi /\ hi <= Len(bs)

\* bs[lo:hi], in range
Slice(bs, lo, hi) == SubSeq(bs, lo + 1, hi)

\* checkLastEmptyLine(bs)
checkLastEmptyLine(bs) ==
    LET bsLen == Len(bs)
    IN  IF bsLen > 2 /\ Slice(bs, bsLen - 2, bsLen) = LF \o LF
        THEN [isCRLF |-> FALSE, ok |-> TRUE]
        ELSE IF bsLen > 4 /\ Slice(bs, bsLen - 4, bsLen) = CRLF \o CRLF
        THEN [isCRLF |-> TRUE, ok |-> TRUE]
        ELSE [isCRLF |-> FALSE, ok |-> FALSE]

\* what a parse returns: a value, an error, or a panic
Parsed(v) == [kind |-> "ok", v |-> v, err |-> ""]

ParseError(err) == [kind |-> "error", v |-> <<>>, err |-> err]

ParsePanic == [kind |-> "panic", v |-> <<>>, err |-> "slice bounds out of range"]

\* parseRequestLine(bs, isCRLF)
parseRequestLine(bs, isCRLF) ==
    LET newline == IndexByte(bs, 10)
    IN  IF newline < 0 THEN ParseError("missing newline")
        ELSE IF isCRLF /\ ~InRange(bs, 0, newline - 1) THEN ParsePanic
        ELSE LET line == IF isCRLF THEN Slice(bs, 0, newline - 1)
                         ELSE Slice(bs, 0, newline)
                 s1 == IndexByte(line, 32)
                 s2 == IndexByte(Slice(line, s1 + 1, Len(line)), 32)
             IN  IF s1 < 0 \/ s2 < 0 THEN ParseError("deformed parts")
                 ELSE LET t2 == s2 + s1 + 1
                          p == Slice(line, t2 + 1, Len(line))
                          ps == IndexByte(p, 47)
                      IN  IF ps < 0 THEN ParseError("deformed proto")
                          ELSE Parsed([lineLen |-> newline,
                                       method |-> Slice(line, 0, s1),
                                       requestUri |-> Slice(line, s1 + 1, t2),
                                       proto |-> Slice(p, 0, ps),
                                       protoVer |-> Slice(p, ps + 1, Len(p))])

RECURSIVE FromBytes(_, _, _)
\* h.FromBytes(bs, isCRLF), h the header read so far
FromBytes(h, bs, isCRLF) ==
    LET nl == IndexByte(bs, 10)
    IN  IF nl < 0 THEN Parsed(h)
        ELSE LET line == Slice(bs, 0, nl + 1)
                 kvSep == IndexByte(line, 58)
                 hi == IF isCRLF THEN Len(line) - 2 ELSE Len(line) - 1
             IN  IF kvSep < 0 THEN ParseError("deformed header")
                 ELSE IF ~InRange(line, kvSep + 2, hi) THEN ParsePanic
                 ELSE LET val == Slice(line, kvSep + 2, hi)
                          key == Slice(line, 0, kvSep)
                          old == IF key \in DOMAIN h THEN h[key] ELSE <<>>
                      IN  FromBytes(
                              [k \in DOMAIN h \cup {key} |->
                                   IF k = key THEN Append(old, val) ELSE h[k]],
                              Slice(bs, nl + 1, Len(bs)), isCRLF)

\* url.Parse(requestUri) fails: of the request lines here, on the one whose
\* URI begins with ':' ("missing protocol scheme")
UrlParseFails(requestUri) == requestUri # <<>> /\ requestUri[1] = 58

\* h.ReadFrom(r, maxSize), r.Read returning the bytes bs
ReadFrom(bs, maxSize) ==
    LET reqSize == Len(bs)
        last == checkLastEmptyLine(bs)
    IN  IF reqSize = 0 THEN ParseError("unable to read handshake")
        ELSE IF reqSize = maxSize + 1 THEN ParseError("too large handshake")
        ELSE IF ~last.ok THEN ParseError("missing last empty line")
        ELSE LET hs == IF last.isCRLF THEN Slice(bs, 0, reqSize - 2)
                       ELSE Slice(bs, 0, reqSize - 1)
                 rl == parseRequestLine(hs, last.isCRLF)
             IN  IF rl.kind = "panic" THEN ParsePanic
                 ELSE IF rl.kind = "error"
                 THEN ParseError("invalid request line: " \o rl.err)
                 ELSE LET hd == FromBytes(<<>>,
                                          Slice(hs, rl.v.lineLen + 1, Len(hs)),
                                          last.isCRLF)
                      IN  IF hd.kind = "panic" THEN ParsePanic
                          ELSE IF hd.kind = "error" THEN ParseError(hd.err)
                          ELSE IF UrlParseFails(rl.v.requestUri)
                          THEN ParseError("deformed requestUri")
                          ELSE Parsed([Method |-> rl.v.method,
                                       Proto |-> rl.v.proto,
                                       ProtoVer |-> rl.v.protoVer,
                                       RequestURI |-> rl.v.requestUri,
                                       Header |-> hd.v])

\* the request lines of the inputs
RequestLines ==
    {
     \* "G / H/1"
     <<71, 32, 47, 32, 72, 47, 49>>,
     \* ""
     <<>>,
     \* "G"
     <<71>>,
     \* "G /"
     <<71, 32, 47>>,
     \* "G / H"
     <<71, 32, 47, 32, 72>>,
     \* " "
     <<32>>,
     \* "G  H/1"
     <<71, 32, 32, 72, 47, 49>>,
     \* "G : H/1"
     <<71, 32, 58, 32, 72, 47, 49>>}

\* the header lines of the inputs
HeaderLines ==
    {
     \* "K: v"
     <<75, 58, 32, 118>>,
     \* "K:"
     <<75, 58>>,
     \* "K: "
     <<75, 58, 32>>,
     \* "K"
     <<75>>,
     \* ":"
     <<58>>,
     \* ""
     <<>>,
     \* "K:v"
     <<75, 58, 118>>}

Newlines == {LF, CRLF}

\* the requests: a request line, no, one or two header lines, an empty line
ParseRequests ==
    {rl \o n1 \o hs \o n2 :
         rl \in RequestLines, n1 \in Newlines, n2 \in Newlines,
         hs \in {<<>>} \cup {h \o n : h \in HeaderLines, n \in Newlines}
                 \cup {h \o n \o g \o m :
                           h \in HeaderLines, n \in Newlines,
                           g \in HeaderLines, m \in Newlines}}

ParseInit ==
    /\ ServerInit
    /\ maskKey \in MaskKeys
    /\ RouterIdle
    /\ CheckIdle
    /\ CodecIdle
    /\ ReaderIdle
    /\ MsgIdle
    /\ utilIn \in [fn : {"ReadFrom"}, byts : ParseRequests]
    /\ utilOut = NoUtilOut

\* c.doHandshake() as far as hsReq.ReadFrom(c.Buf, c.Server.MaxHandshakeBytes)
\* and, on its error, the return of 400 that serve hands to FailHandshake
DoHandshakeReadFrom ==
    /\ utilIn.fn = "ReadFrom"
    /\ ~utilOut.done
    /\ LET res == ReadFrom(utilIn.byts, defaultMaxHandshakeBytes)
       IN  utilOut' = [done |-> TRUE, res |-> res,
                       errCode |-> IF res.kind = "error"
                                   THEN StatusBadRequest ELSE 0]
    /\ UNCHANGED <<connVars, poolVars, inVars, outVars, recvMu, sendMu,
                   taskVars, maskKey, router, panicked, reg, hsReq, hsRet,
                   codecIn, codecOut, reader, outMsg, utilIn>>

SpecParse == ParseInit /\ [][DoHandshakeReadFrom]_vars

\* C32: for every request that ends in an empty line, ReadFrom returns a
\* parsed request or an error, which doHandshake returns with the code 400
\* for FailHandshake to answer and close; no input makes the parse fail in
\* another way (the original statement, which the code violates).
ParseReturns ==
    (utilIn.fn = "ReadFrom" /\ utilOut.done)
        => /\ utilOut.res.kind \in {"ok", "error"}
           /\ utilOut.res.kind = "error" <=> utilOut.errCode = StatusBadRequest

(***************************************************************************)
(* The order of the frames on the wire.                                    *)
(***************************************************************************)
\* the i-th entry of the wire of c is a Close frame
IsCloseEntry(c, i) ==
    wire[c][i].kind = "frame" /\ wire[c][i].f.Opcode = OpcodeClose

\* the i-th entry of the wire of c is a data frame
IsDataEntry(c, i) ==
    /\ wire[c][i].kind = "frame"
    /\ wire[c][i].f.Opcode \in {OpcodeContinue, OpcodeText, OpcodeBinary}

\* C33: on every connection, no data frame follows on the wire the Close
\* frame that SendClose has written (the original statement, which the code
\* violates).
CloseFrameLast ==
    \A c \in Conns :
        \A i, j \in 1..Len(wire[c]) :
            (i < j /\ IsCloseEntry(c, i)) => ~IsDataEntry(c, j)

(***************************************************************************)
(* The guards under fair scheduling: two tasks that call the whole-message *)
(* operations and the brackets of an open connection, and close it, while  *)
(* the peer sends a message and closes its side.                           *)
(***************************************************************************)
LiveInit == OpenInit(SpecTasks)

\* the task that calls every whole-message operation
LiveCaller == <<1, 1>>

\* the task that holds the guards in brackets, sends, and closes
LiveCloser == <<1, 2>>

\* the k-th frame of the peer: a message of two fragments, not masked
LivePeerFrame(k) ==
    IF k = 1 THEN PeerFrame(0, OpcodeText, 0, PeerPayload(k, 1))
    ELSE PeerFrame(1, OpcodeContinue, 0, <<>>)

LiveNext ==
    \/ PeerSend(1, LivePeerFrame(Len(sent[1]) + 1),
                Len(PeerFrameBytes(LivePeerFrame(Len(sent[1]) + 1))), FALSE)
    \/ PeerClose(1)
    \/ ReadWhole(LiveCaller, MaxFrames * MaxPayload)
    \/ ReadWholeLock(LiveCaller)
    \/ ReadWholeFirst(LiveCaller)
    \/ ReadWholeLoop(LiveCaller)
    \/ ReadWholeNext(LiveCaller)
    \/ SendWholeWithReader(LiveCaller, TaskData(LiveCaller), OpcodeBinary,
                           FALSE)
    \/ SendWholeWithReaderLock(LiveCaller)
    \/ BeginReadFrame(LiveCloser)
    \/ EndReadFrame(LiveCloser)
    \/ BeginSendFrame(LiveCloser)
    \/ EndSendFrame(LiveCloser)
    \/ SendClose(LiveCloser, CloseCodeNormalClosure, <<>>, FALSE, FALSE)
    \/ SendCloseClose(LiveCloser)
    \/ SendWhole(LiveCaller,
                 [Opcode |-> OpcodeText, Data |-> TaskData(LiveCaller)], FALSE)
    \/ SendWholeLock(LiveCaller)
    \/ \E t \in SpecTasks :
           \/ ConnWrite(t)
           \/ ConnFlush(t)

\* the scheduler runs every task that can take a step of a call it is in;
\* sync.Mutex hands a guard that is released again and again to a task that
\* waits for it; the stream's reads complete, at the latest when the peer
\* closes its side; the task that has begun a bracket ends it.  A decode is
\* written with its position in front, which is the first conjunct of its
\* definition too.  ConnWrite(t) is enabled exactly when pc[t] = "write"
\* and every step of it leaves that position, so that its weak fairness is
\* []<>(pc[t] # "write").
LiveFair ==
    /\ WF_vars(PeerClose(1))
    /\ WF_vars(EndReadFrame(LiveCloser))
    /\ WF_vars(EndSendFrame(LiveCloser))
    /\ SF_vars(ReadWholeLock(LiveCaller))
    /\ SF_vars(SendWholeLock(LiveCaller))
    /\ SF_vars(SendWholeWithReaderLock(LiveCaller))
    /\ WF_vars(pc[LiveCaller] = "rw_first" /\ ReadWholeFirst(LiveCaller))
    /\ WF_vars(ReadWholeLoop(LiveCaller))
    /\ WF_vars(pc[LiveCaller] = "rw_next" /\ ReadWholeNext(LiveCaller))
    /\ WF_vars(SendCloseClose(LiveCloser))
    /\ \A t \in SpecTasks :
           /\ []<>(pc[t] # "write")
           /\ WF_vars(ConnFlush(t))

SpecLive == LiveInit /\ [][LiveNext]_vars /\ LiveFair

\* task t is inside a call of a whole-message operation
InWhole(t) == call[t].op \in {"ReadWhole", "SendWhole", "SendWholeWithReader"}

\* the guard g of connection c is held by a task inside a whole-message
\* operation past its Lock, or inside a bracket
GuardOwned(c) ==
    /\ recvMu[c] => \E t \in Tasks :
                        /\ ConnOf(t) = c
                        /\ \/ "recv" \in held[t]
                           \/ pc[t] \in {"rw_first", "rw_loop", "rw_next"}
    /\ sendMu[c] => \E t \in Tasks :
                        /\ ConnOf(t) = c
                        /\ \/ "send" \in held[t]
                           \/ /\ call[t].op \in {"SendWhole",
                                                 "SendWholeWithReader"}
                              /\ pc[t] \in {"write", "flush"}

\* task t returns from a whole-message operation in this step
ReturnsFromWhole(t) == InWhole(t) /\ ~InWhole(t)'

\* C34: under fair scheduling, when reads and writes complete and every
\* bracket is ended, every call of ReadWhole, SendWhole and
\* SendWholeWithReader returns; a call that returns, with or without an
\* error, leaves its guard free, and a guard is never held but by a call
\* past its Lock or by a bracket.
GuardsLive ==
    /\ [](\A c \in Conns : GuardOwned(c))
    /\ [][\A t \in SpecTasks :
              ReturnsFromWhole(t)
                  => /\ pc'[t] = "handler"
                     /\ call[t].op = "ReadWhole" => ~recvMu'[ConnOf(t)]
                     /\ call[t].op # "ReadWhole" => ~sendMu'[ConnOf(t)]]_vars
    /\ \A t \in SpecTasks : InWhole(t) ~> (pc[t] = "handler")

\* ReadWhole has taken its guard, read the first fragment of a message and
\* returned "conn is not open" from its loop, after the other task called
\* SendClose: the receiver's guard is free, and the other task holds the
\* sender's guard in a bracket
GuardsLiveWitness ==
    /\ ret[LiveCaller].op = "ReadWhole"
    /\ ret[LiveCaller].err = ErrConnIsNotOpen
    /\ ret[LiveCaller].io > 0
    /\ pc[LiveCaller] = "handler"
    /\ ~recvMu[1]
    /\ "send" \in held[LiveCloser]
    /\ sendMu[1]

=============================================================================
